---- MODULE Spec2Model ----
(***************************************************************************)
(* A model of the rust-cpu-emulator virtual machine: the CPU core          *)
(* (src/src/cpu.rs), its instruction set (src/src/cpu/instructions.rs),    *)
(* the address bus (src/src/address_bus.rs), the Memory device             *)
(* (src/src/memory.rs), the port bus (src/src/port_bus.rs) and the host    *)
(* drive loop (src/src/main.rs).                                           *)
(*                                                                         *)
(* A u64 is a function 0..7 -> 0..255 of base-256 digits, digit k having   *)
(* weight 256^k, so that every 64-bit value is represented exactly and     *)
(* wrapping arithmetic is carried out digit by digit.  A byte buffer       *)
(* ([u8; n], &[u8]) is a sequence 1..n of bytes.                           *)
(***************************************************************************)
EXTENDS Integers, Sequences, FiniteSets, TLC

VARIABLES
    registers,      \* Cpu.registers: [u64; 7], indexed 0..6
    idt,            \* Cpu.idt
    flags,          \* Cpu.flags
    halted,         \* Cpu.halted
    address_bus,    \* AddressBus.entries, in ascending interval order
    port_bus,       \* PortBus.entries, the occupied slots
    panicked,       \* the process has aborted with a Rust panic
    debug,          \* cfg!(debug_assertions): overflow checks are compiled in
    main_pc,        \* control state of main(): "loop" or "exit"
    last,           \* history: the last operation, the machine before it, its bus log,
                    \* and the operation before it with the IP and SP it started from
                    \* and its log
    clocks,         \* number of clock() calls so far
    resets,         \* number of host reset() calls so far
    adds,           \* number of device registrations the host has made
    transfers       \* number of bus transfers made outside clock(): by the host
                    \* itself, or by a push or pop applied on its own

vars == <<registers, idt, flags, halted, address_bus, port_bus, panicked, debug,
          main_pc, last, clocks, resets, adds, transfers>>

(***************************************************************************)
(* Bounds of the model.                                                    *)
(***************************************************************************)
MaxClocks == 7
MaxResets == 1

(***************************************************************************)
(* 64-bit unsigned integers.                                               *)
(***************************************************************************)
Byte == 0..255

\* `let v = ...;` followed by the code F that uses v: v is computed once.
Bind(v, F(_)) == F(v)

Pow256(k) == CASE k = 0 -> 1 [] k = 1 -> 256 [] k = 2 -> 65536 [] OTHER -> 16777216

\* The function f on 0..7 (on 0..9) with every digit computed once.
Tab8(f) ==
    (0 :> f[0]) @@ (1 :> f[1]) @@ (2 :> f[2]) @@ (3 :> f[3]) @@
    (4 :> f[4]) @@ (5 :> f[5]) @@ (6 :> f[6]) @@ (7 :> f[7])
Tab10(f) == Tab8(f) @@ (8 :> f[8]) @@ (9 :> f[9])

\* The u64 of a natural number below 2^31.
u64(n) == Tab8([k \in 0..7 |-> IF k <= 3 THEN (n \div Pow256(k)) % 256 ELSE 0])

\* A u64 whose value is below 2^31, and that value.
IsSmall(v) == v[4] = 0 /\ v[5] = 0 /\ v[6] = 0 /\ v[7] = 0 /\ v[3] < 128
Val(v) == v[0] + 256 * v[1] + 65536 * v[2] + 16777216 * v[3]

\* u64::wrapping_add, and whether the exact sum exceeds 2^64 - 1.
wrapping_add(a, b) ==
    LET c[k \in 0..7] == IF k = 0 THEN 0 ELSE (a[k-1] + b[k-1] + c[k-1]) \div 256
    IN  Tab8([k \in 0..7 |-> (a[k] + b[k] + c[k]) % 256])

add_overflows(a, b) ==
    LET c[k \in 0..8] == IF k = 0 THEN 0 ELSE (a[k-1] + b[k-1] + c[k-1]) \div 256
    IN  c[8] = 1

\* u64::wrapping_sub, and the unsigned order a < b (the subtraction borrows).
wrapping_sub(a, b) ==
    LET c[k \in 0..7] == IF k = 0 THEN 1 ELSE (a[k-1] + (255 - b[k-1]) + c[k-1]) \div 256
    IN  Tab8([k \in 0..7 |-> (a[k] + (255 - b[k]) + c[k]) % 256])

U64Lt(a, b) ==
    LET c[k \in 0..8] == IF k = 0 THEN 1 ELSE (a[k-1] + (255 - b[k-1]) + c[k-1]) \div 256
    IN  c[8] = 0

U64Max(a, b) == IF U64Lt(a, b) THEN b ELSE a
U64Min(a, b) == IF U64Lt(a, b) THEN a ELSE b

\* u64::to_le_bytes and u64::from_le_bytes: digit k is byte k+1 of the buffer.
to_le_bytes(v) == <<v[0], v[1], v[2], v[3], v[4], v[5], v[6], v[7]>>
from_le_bytes(b) == Tab8([k \in 0..7 |-> IF k + 1 <= Len(b) THEN b[k+1] ELSE 0])

\* A zero-filled buffer, [0u8; n].
ZeroBuf(n) == [i \in 1..n |-> 0]


\* Bit `bit` (0..63) of a u64, and the u64 with that bit replaced.
Pow2(n) == 2 ^ n
BitOf(v, bit) == (v[bit \div 8] \div Pow2(bit % 8)) % 2
WithBit(v, bit, value) ==
    [v EXCEPT ![bit \div 8] = (@ - BitOf(v, bit) * Pow2(bit % 8)) + value * Pow2(bit % 8)]

\* Numbers of up to 10 base-256 digits, for the intermediate values of a
\* division: b * q for a digit q, the unsigned order, and the difference.
WideMul(b, q) ==
    LET c[k \in 0..10] ==
            IF k = 0 THEN 0 ELSE ((IF k - 1 <= 7 THEN b[k-1] * q ELSE 0) + c[k-1]) \div 256
    IN  Tab10([k \in 0..9 |-> ((IF k <= 7 THEN b[k] * q ELSE 0) + c[k]) % 256])

WideLt(x, y) ==
    LET c[k \in 0..10] == IF k = 0 THEN 1 ELSE (x[k-1] + (255 - y[k-1]) + c[k-1]) \div 256
    IN  c[10] = 0

WideSub(x, y) ==
    LET c[k \in 0..10] == IF k = 0 THEN 1 ELSE (x[k-1] + (255 - y[k-1]) + c[k-1]) \div 256
    IN  Tab10([k \in 0..9 |-> (x[k] + (255 - y[k]) + c[k]) % 256])

\* Long division in base 256, most significant digit first: digit d of the
\* dividend is brought down to the remainder, the quotient digit is the
\* largest q with b * q <= remainder.
RECURSIVE LongDivFrom(_, _, _, _, _)
LongDivFrom(a, b, d, rem, quo) ==
    IF d < 0 THEN quo
    ELSE LET r  == Tab10([k \in 0..9 |-> IF k = 0 THEN a[d] ELSE rem[k-1]])
             qd == CHOOSE q \in 0..255 :
                      /\ ~WideLt(r, WideMul(b, q))
                      /\ WideLt(r, WideMul(b, q + 1))
         IN  LongDivFrom(a, b, d - 1, WideSub(r, WideMul(b, qd)), [quo EXCEPT ![d] = qd])

LongDiv(a, b) == LongDivFrom(a, b, 7, Tab10([k \in 0..9 |-> 0]), u64(0))

\* u64::wrapping_div for a nonzero divisor.
wrapping_div(a, b) ==
    IF IsSmall(a) /\ IsSmall(b) THEN u64(Val(a) \div Val(b)) ELSE LongDiv(a, b)

(***************************************************************************)
(* Memory device (src/src/memory.rs).  The byte vector is kept sparse: the *)
(* function `memory` holds the nonzero bytes, every other offset below     *)
(* `length` holds 0, as vec![0; length] leaves it.                         *)
(***************************************************************************)
Memory_new(length) == [length |-> length, memory |-> <<>>]

MemByte(device, o) == IF o \in DOMAIN device.memory THEN device.memory[o] ELSE 0

Memory_write(device, src, address, offset) ==
    LET rng == offset .. (offset + Len(src) - 1)
        dom == ((DOMAIN device.memory) \ rng) \cup {o \in rng : src[o - offset + 1] # 0}
    IN  [device EXCEPT !.memory =
            [o \in dom |-> IF o \in rng THEN src[o - offset + 1] ELSE device.memory[o]]]

\* A faulty Memory read: it copies from the start of the vector.
Memory_read_from_start(device, dest, address, offset) ==
    [i \in 1..Len(dest) |-> MemByte(device, i - 1)]

Memory_read(device, dest, address, offset) ==
    [i \in 1..Len(dest) |-> MemByte(device, offset + i - 1)]

\* AddressBusDevice::write on a boxed device.  A device that carries a field
\* `calls` is a Memory that also records every call it receives.
Device_write(device, src, address, offset) ==
    IF "calls" \in DOMAIN device
    THEN [Memory_write(device, src, address, offset) EXCEPT
             !.calls = Append(@, [src |-> src, address |-> address, offset |-> offset])]
    ELSE Memory_write(device, src, address, offset)

(***************************************************************************)
(* AddressBus (src/src/address_bus.rs).  `entries` is the interval map as  *)
(* a sequence of [start, end, device] in ascending interval order, the     *)
(* order in which iset's IntervalMap iterates.  iset panics on a query or  *)
(* an insertion whose range is empty or ill-formed (start >= end).         *)
(***************************************************************************)
AddressBus_new == <<>>

\* address..address + n is not a well-formed, non-empty range: the sum
\* overflows (a panic with overflow checks, a wrapped end below the start
\* without them) or n = 0.  Either way the call panics.
RangeIllFormed(address, n) == n = 0 \/ add_overflows(address, u64(n))

EntryOverlaps(e, lo, hi) == U64Lt(e.start, hi) /\ U64Lt(lo, e.end)

has_overlap(entries, lo, hi) == \E i \in DOMAIN entries : EntryOverlaps(entries[i], lo, hi)

\* The sub-slice of a transfer of n bytes at `address` that entry e receives:
\* `from` is its first index in the buffer (1-based), `count` its length.
Clip(e, address, n) ==
    Bind(U64Max(e.start, address), LAMBDA start_address :
    Bind(U64Min(e.end, wrapping_add(address, u64(n))), LAMBDA end_address :
        [from   |-> Val(wrapping_sub(start_address, address)) + 1,
         count  |-> Val(wrapping_sub(end_address, start_address)),
         offset |-> Val(wrapping_sub(start_address, e.start))]))

\* A faulty add_entry: the overlap test is missing.
add_entry_unchecked(entries, address, length, device) ==
    LET end == wrapping_add(address, length)
        pos == Cardinality({i \in DOMAIN entries : U64Lt(entries[i].start, address)})
    IN  IF add_overflows(address, length) \/ ~U64Lt(address, end)
        THEN [entries |-> entries, result |-> "Panic"]
        ELSE [entries |-> SubSeq(entries, 1, pos)
                            \o <<[start |-> address, end |-> end, device |-> device]>>
                            \o SubSeq(entries, pos + 1, Len(entries)),
              result |-> "Ok"]

add_entry(entries, address, length, device) ==
    LET end == wrapping_add(address, length)
        pos == Cardinality({i \in DOMAIN entries : U64Lt(entries[i].start, address)})
    IN  IF add_overflows(address, length) \/ ~U64Lt(address, end)
        THEN [entries |-> entries, result |-> "Panic"]
        ELSE IF ~has_overlap(entries, address, end)
        THEN [entries |-> SubSeq(entries, 1, pos)
                            \o <<[start |-> address, end |-> end, device |-> device]>>
                            \o SubSeq(entries, pos + 1, Len(entries)),
              result |-> "Ok"]
        ELSE [entries |-> entries, result |-> "Err"]

RECURSIVE AddressBus_write_from(_, _, _, _)
AddressBus_write_from(entries, i, src, address) ==
    IF i > Len(entries) THEN entries
    ELSE IF EntryOverlaps(entries[i], address, wrapping_add(address, u64(Len(src))))
    THEN Bind(Clip(entries[i], address, Len(src)), LAMBDA c :
            AddressBus_write_from(
                [entries EXCEPT ![i].device =
                    Device_write(@, SubSeq(src, c.from, c.from + c.count - 1),
                                 address, c.offset)],
                i + 1, src, address))
    ELSE AddressBus_write_from(entries, i + 1, src, address)

\* AddressBus::write for a well-formed range: the entries afterwards.
AddressBus_write(entries, src, address) == AddressBus_write_from(entries, 1, src, address)

RECURSIVE AddressBus_read_from(_, _, _, _)
AddressBus_read_from(entries, i, dest, address) ==
    IF i > Len(entries) THEN dest
    ELSE IF EntryOverlaps(entries[i], address, wrapping_add(address, u64(Len(dest))))
    THEN Bind(Clip(entries[i], address, Len(dest)), LAMBDA c :
         Bind(Memory_read(entries[i].device, SubSeq(dest, c.from, c.from + c.count - 1),
                          address, c.offset), LAMBDA got :
            AddressBus_read_from(entries, i + 1,
                [k \in 1..Len(dest) |->
                    IF k >= c.from /\ k < c.from + c.count
                    THEN got[k - c.from + 1] ELSE dest[k]],
                address)))
    ELSE AddressBus_read_from(entries, i + 1, dest, address)

\* AddressBus::read for a well-formed range: the buffer afterwards.
AddressBus_read(entries, dest, address) == AddressBus_read_from(entries, 1, dest, address)

(***************************************************************************)
(* PortBus (src/src/port_bus.rs): `entries` has 0xffff slots, 0..0xfffe.   *)
(* The model keeps the occupied slots as a function port -> device, a      *)
(* device being the last value written to it.                              *)
(***************************************************************************)
PortBus_new == <<>>

PortSlots == 65535

\* A faulty add_device: an occupied slot is overwritten.
PortBus_add_device_overwriting(entries, port, callback) ==
    IF port >= PortSlots THEN [entries |-> entries, result |-> "Panic"]
    ELSE [entries |-> [p \in (DOMAIN entries) \cup {port} |->
                          IF p = port THEN callback ELSE entries[p]],
          result |-> "Ok"]

\* PortBus::add_device.  entries[port as usize] is out of bounds for port
\* 0xffff.
PortBus_add_device(entries, port, callback) ==
    IF port >= PortSlots THEN [entries |-> entries, result |-> "Panic"]
    ELSE IF port \notin DOMAIN entries
    THEN [entries |-> [p \in (DOMAIN entries) \cup {port} |->
                          IF p = port THEN callback ELSE entries[p]],
          result |-> "Ok"]
    ELSE [entries |-> entries, result |-> "Err"]

(***************************************************************************)
(* The CPU (src/src/cpu.rs).  A machine m is the Cpu with the two buses it *)
(* refers to: [registers, idt, flags, halted, address_bus, port_bus,       *)
(* panicked, debug, log].  `log` lists, in order, what the operation in    *)
(* progress has done: its bus transfers, resets, the instruction it        *)
(* dispatched and the interrupts it handled.  Once m.panicked holds the    *)
(* process is gone: every later step of the operation changes nothing.     *)
(***************************************************************************)
\* enum CpuFlag
Negative == 0
Overflow == 1
Zero == 2
Carry == 3
InterruptEnable == 4

\* enum RegisterId
X0 == 1
X1 == 2
X2 == 3
X3 == 4
X4 == 5
Sp == 6
Ip == 7

\* cpu/reserved_idt_entries.rs
DIVIDE_BY_ZERO == 0
INVALID_INSTRUCTION == 1

to_index(id) == id - 1

Panic(m) == [m EXCEPT !.panicked = TRUE]

Logged(m, entry) == IF m.panicked THEN m ELSE [m EXCEPT !.log = Append(@, entry)]

write(m, src, address) ==
    IF m.panicked THEN m
    ELSE IF RangeIllFormed(address, Len(src)) THEN Panic(m)
    ELSE [Logged(m, [op |-> "write", address |-> address, bytes |-> src])
            EXCEPT !.address_bus = AddressBus_write(@, src, address)]

\* read returns the machine and the buffer as the bus left it.  The log
\* entry holds the bytes the caller gets: none from a read that panics.
read(m, dest, address) ==
    IF m.panicked THEN [m |-> m, buf |-> dest]
    ELSE IF RangeIllFormed(address, Len(dest))
    THEN [m   |-> Panic(Logged(m, [op |-> "read", address |-> address, len |-> Len(dest),
                                   bytes |-> <<>>])),
          buf |-> dest]
    ELSE Bind(AddressBus_read(m.address_bus, dest, address), LAMBDA buf :
            [m   |-> Logged(m, [op |-> "read", address |-> address, len |-> Len(dest),
                                bytes |-> buf]),
             buf |-> buf])

register(m, id) == m.registers[to_index(id)]

register_assign(m, id, value) ==
    IF m.panicked THEN m ELSE [m EXCEPT !.registers[to_index(id)] = value]

register_add_assign(m, id, value) ==
    register_assign(m, id, wrapping_add(register(m, id), value))

register_sub_assign(m, id, value) ==
    register_assign(m, id, wrapping_sub(register(m, id), value))

\* A faulty register_assign_sized: the whole register is replaced.
register_assign_sized_whole(m, id, value, size) ==
    IF m.panicked THEN m
    ELSE [Logged(m, [op |-> "assign", id |-> id, value |-> value, size |-> size,
                     before |-> register(m, id)])
            EXCEPT !.registers[to_index(id)] = value]

\* Only the low `size` bytes of the register are replaced.
register_assign_sized(m, id, value, size) ==
    IF m.panicked THEN m
    ELSE [Logged(m, [op |-> "assign", id |-> id, value |-> value, size |-> size,
                     before |-> register(m, id)])
            EXCEPT !.registers[to_index(id)] =
                Tab8([k \in 0..7 |-> IF k < size THEN value[k] ELSE @[k]])]

get_flag(m, flag) == BitOf(m.flags, flag) = 1

\* A faulty set_flag: the flags word is replaced by the one bit.
set_flag_replacing(m, flag, value) ==
    IF m.panicked THEN m
    ELSE [m EXCEPT !.flags = WithBit(u64(0), flag, IF value THEN 1 ELSE 0)]

set_flag(m, flag, value) ==
    IF m.panicked THEN m
    ELSE [m EXCEPT !.flags = WithBit(@, flag, IF value THEN 1 ELSE 0)]

\* fetch_byte returns a u8 (a number); the wider fetches return the
\* zero-extended u64.  Each advances IP by the width.
fetch_byte(m) ==
    Bind(read(m, ZeroBuf(1), register(m, Ip)), LAMBDA r :
        [m |-> register_add_assign(r.m, Ip, u64(1)), v |-> r.buf[1]])

fetch_word(m) ==
    Bind(read(m, ZeroBuf(2), register(m, Ip)), LAMBDA r :
        [m |-> register_add_assign(r.m, Ip, u64(2)), v |-> from_le_bytes(r.buf)])

fetch_dword(m) ==
    Bind(read(m, ZeroBuf(4), register(m, Ip)), LAMBDA r :
        [m |-> register_add_assign(r.m, Ip, u64(4)), v |-> from_le_bytes(r.buf)])

fetch_qword(m) ==
    Bind(read(m, ZeroBuf(8), register(m, Ip)), LAMBDA r :
        [m |-> register_add_assign(r.m, Ip, u64(8)), v |-> from_le_bytes(r.buf)])

\* A faulty fetch_sized: it fetches a qword whatever the size.
fetch_sized_always_qword(m, size) == fetch_qword(m)

fetch_sized(m, size) ==
    CASE size = 1 -> Bind(fetch_byte(m), LAMBDA f : [m |-> f.m, v |-> u64(f.v)])
      [] size = 2 -> fetch_word(m)
      [] size = 4 -> fetch_dword(m)
      [] OTHER    -> fetch_qword(m)

\* The pushes lower SP by the width, then write; push_byte takes a u8 (a
\* number), the wider ones a value of their width, zero-extended here.
push_byte(m, value) ==
    Bind(register_sub_assign(m, Sp, u64(1)), LAMBDA m1 :
        write(m1, <<value>>, register(m1, Sp)))

push_word(m, value) ==
    Bind(register_sub_assign(m, Sp, u64(2)), LAMBDA m1 :
        write(m1, SubSeq(to_le_bytes(value), 1, 2), register(m1, Sp)))

push_dword(m, value) ==
    Bind(register_sub_assign(m, Sp, u64(4)), LAMBDA m1 :
        write(m1, SubSeq(to_le_bytes(value), 1, 4), register(m1, Sp)))

\* A faulty push_qword: it writes at SP, then lowers SP.
push_qword_writing_first(m, value) ==
    register_sub_assign(write(m, to_le_bytes(value), register(m, Sp)), Sp, u64(8))

push_qword(m, value) ==
    Bind(register_sub_assign(m, Sp, u64(8)), LAMBDA m1 :
        write(m1, to_le_bytes(value), register(m1, Sp)))

\* The pops read at SP, then raise SP by the width.
pop_byte(m) ==
    Bind(read(m, ZeroBuf(1), register(m, Sp)), LAMBDA r :
        [m |-> register_add_assign(r.m, Sp, u64(1)), v |-> r.buf[1]])

pop_word(m) ==
    Bind(read(m, ZeroBuf(2), register(m, Sp)), LAMBDA r :
        [m |-> register_add_assign(r.m, Sp, u64(2)), v |-> from_le_bytes(r.buf)])

pop_dword(m) ==
    Bind(read(m, ZeroBuf(4), register(m, Sp)), LAMBDA r :
        [m |-> register_add_assign(r.m, Sp, u64(4)), v |-> from_le_bytes(r.buf)])

pop_qword(m) ==
    Bind(read(m, ZeroBuf(8), register(m, Sp)), LAMBDA r :
        [m |-> register_add_assign(r.m, Sp, u64(8)), v |-> from_le_bytes(r.buf)])

push_flags(m) == push_qword(m, m.flags)

pop_flags(m) ==
    Bind(pop_qword(m), LAMBDA p :
        IF p.m.panicked THEN p.m ELSE [p.m EXCEPT !.flags = p.v])

\* A faulty reset: InterruptEnable is left as it was.
reset_keeping_flags(m) ==
    Bind(read(Logged(m, [op |-> "reset"]), ZeroBuf(8), u64(0)), LAMBDA r :
        register_assign(register_assign(r.m, Ip, from_le_bytes(r.buf)), Sp, u64(65535)))

reset(m) ==
    Bind(read(Logged(m, [op |-> "reset"]), ZeroBuf(8), u64(0)),
         LAMBDA r :
    Bind(from_le_bytes(r.buf), LAMBDA execution_start :
        register_assign(
            register_assign(set_flag(r.m, InterruptEnable, TRUE), Ip, execution_start),
            Sp, u64(65535))))

\* The log entry of an interrupt: the vector and the Cpu as the handler found it.
Interrupted(m, idt_entry) ==
    Logged(m, [op |-> "interrupt", idt_entry |-> idt_entry, idt |-> m.idt,
               ip |-> m.registers[6], sp |-> m.registers[5], flags |-> m.flags])

\* A faulty interrupt_handler: a dispatch clears InterruptEnable after the
\* flags are pushed.
interrupt_handler_masking(cpu, idt_entry) ==
    Bind(Interrupted(cpu, idt_entry), LAMBDA m :
        IF m.idt # u64(0)
        THEN Bind(wrapping_add(m.idt, u64(idt_entry * 8)), LAMBDA idt_entry_address :
             Bind(read(IF m.debug /\ add_overflows(m.idt, u64(idt_entry * 8))
                       THEN Panic(m) ELSE m,
                       ZeroBuf(8), idt_entry_address), LAMBDA r :
             Bind(from_le_bytes(r.buf), LAMBDA handler_address :
                IF handler_address # u64(0)
                THEN Bind(set_flag(push_flags(r.m), InterruptEnable, FALSE), LAMBDA m1 :
                        register_assign(push_qword(m1, register(m1, Ip)),
                                        Ip, handler_address))
                ELSE reset(r.m))))
        ELSE reset(m))

\* A faulty interrupt_handler: an empty slot is ignored instead of resetting.
interrupt_handler_ignoring_empty(cpu, idt_entry) ==
    Bind(Interrupted(cpu, idt_entry), LAMBDA m :
        IF m.idt # u64(0)
        THEN Bind(read(IF m.debug /\ add_overflows(m.idt, u64(idt_entry * 8))
                       THEN Panic(m) ELSE m,
                       ZeroBuf(8), wrapping_add(m.idt, u64(idt_entry * 8))), LAMBDA r :
                IF from_le_bytes(r.buf) # u64(0)
                THEN Bind(push_flags(r.m), LAMBDA m1 :
                        register_assign(push_qword(m1, register(m1, Ip)),
                                        Ip, from_le_bytes(r.buf)))
                ELSE r.m)
        ELSE reset(m))

interrupt_handler(cpu, idt_entry) ==
    Bind(Interrupted(cpu, idt_entry), LAMBDA m :
        IF m.idt # u64(0)
        THEN Bind(wrapping_add(m.idt, u64(idt_entry * 8)), LAMBDA idt_entry_address :
             Bind(read(IF m.debug /\ add_overflows(m.idt, u64(idt_entry * 8))
                       THEN Panic(m) ELSE m,
                       ZeroBuf(8), idt_entry_address), LAMBDA r :
             Bind(from_le_bytes(r.buf), LAMBDA handler_address :
                IF handler_address # u64(0)
                THEN Bind(push_flags(r.m), LAMBDA m1 :
                        register_assign(push_qword(m1, register(m1, Ip)),
                                        Ip, handler_address))
                ELSE reset(r.m))))
        ELSE reset(m))

\* A faulty interrupt_request: InterruptEnable is not consulted.
interrupt_request_unmasked(m, idt_entry) == interrupt_handler(m, idt_entry)

interrupt_request(m, idt_entry) ==
    IF get_flag(m, InterruptEnable) THEN interrupt_handler(m, idt_entry) ELSE m

\* A faulty non_maskable_interrupt_request: it honours InterruptEnable.
non_maskable_interrupt_request_masked(m, idt_entry) ==
    IF get_flag(m, InterruptEnable) THEN interrupt_handler(m, idt_entry) ELSE m

non_maskable_interrupt_request(m, idt_entry) == interrupt_handler(m, idt_entry)

(***************************************************************************)
(* Instructions (src/src/cpu/instructions.rs).  An instruction returns     *)
(* [m, ok, vec]: the machine afterwards and Ok(()) or Err(vec).            *)
(***************************************************************************)
Ok(m) == [m |-> m, ok |-> TRUE, vec |-> 0]
Err(m, vec) == [m |-> m, ok |-> FALSE, vec |-> vec]

\* RegisterId::from_u8 of a 3-bit field: 0 stands for None.
RegisterId_from_u8(n) == IF n \in 1..7 THEN n ELSE 0

\* Size::try_from(1 << (fetched_byte >> 6 & 0b11))
SizeOf(fetched_byte) == Pow2((fetched_byte \div 64) % 4)

get_sign_bit(value, size) == BitOf(value, size * 8 - 1) = 1

trunucate_value(value, size) == Tab8([k \in 0..7 |-> IF k < size THEN value[k] ELSE 0])

\* checked_add / checked_sub on the operands cast to the signed type of the
\* width overflow exactly when the operand signs make it possible and the
\* sign of the truncated result is the wrong one.
does_signed_add_overflow(lhs, rhs, size) ==
    /\ get_sign_bit(lhs, size) = get_sign_bit(rhs, size)
    /\ get_sign_bit(wrapping_add(lhs, rhs), size) # get_sign_bit(lhs, size)

\* A faulty does_signed_sub_overflow: it applies the rule of the addition.
does_signed_sub_overflow_as_add(lhs, rhs, size) ==
    /\ get_sign_bit(lhs, size) = get_sign_bit(rhs, size)
    /\ get_sign_bit(wrapping_sub(lhs, rhs), size) # get_sign_bit(lhs, size)

does_signed_sub_overflow(lhs, rhs, size) ==
    /\ get_sign_bit(lhs, size) # get_sign_bit(rhs, size)
    /\ get_sign_bit(wrapping_sub(lhs, rhs), size) # get_sign_bit(lhs, size)

\* checked_div on the operands cast to the unsigned type of the width is
\* None exactly when the truncated divisor is 0.
does_unsigned_div_overflow(lhs, rhs, size) == trunucate_value(rhs, size) = u64(0)

\* base_value + index_value + const_offset with the + operator: a panic on
\* overflow where overflow checks are compiled in, the wrapped sum where they
\* are not.  The address is traced ("Parsed address").
EffectiveAddress(m, base_value, index_value, const_offset) ==
    Bind(wrapping_add(base_value, index_value), LAMBDA sum :
    Bind(wrapping_add(sum, const_offset), LAMBDA address :
        [m |-> IF m.debug /\ (add_overflows(base_value, index_value)
                                \/ add_overflows(sum, const_offset))
               THEN Panic(m)
               ELSE Logged(m, [op |-> "address", value |-> address]),
         v |-> address]))

\* A faulty decoding: the registers are read before the displacement is
\* fetched.
get_effective_address_early(m) ==
    Bind(fetch_byte(m), LAMBDA f :
    Bind(RegisterId_from_u8(f.v % 8), LAMBDA base_id :
    Bind(RegisterId_from_u8((f.v \div 8) % 8), LAMBDA index_id :
    Bind(fetch_qword(f.m), LAMBDA q :
        EffectiveAddress(q.m,
            IF base_id # 0 THEN register(f.m, base_id) ELSE u64(0),
            IF index_id # 0 THEN register(f.m, index_id) ELSE u64(0),
            q.v)))))

get_effective_address(m) ==
    Bind(fetch_byte(m), LAMBDA f :
    Bind(RegisterId_from_u8(f.v % 8), LAMBDA base_id :
    Bind(RegisterId_from_u8((f.v \div 8) % 8), LAMBDA index_id :
    Bind(fetch_qword(f.m), LAMBDA q :
        EffectiveAddress(q.m,
            IF base_id # 0 THEN register(q.m, base_id) ELSE u64(0),
            IF index_id # 0 THEN register(q.m, index_id) ELSE u64(0),
            q.v)))))

\* A faulty decoding: the immediate is fetched before the destination field
\* is tested.
RmDecode_immediate_first(m) ==
    Bind(fetch_byte(m), LAMBDA f :
    Bind(RegisterId_from_u8(f.v % 8), LAMBDA src_id :
    Bind(RegisterId_from_u8((f.v \div 8) % 8), LAMBDA dst_id :
    Bind(SizeOf(f.v), LAMBDA size :
        IF src_id # 0
        THEN [m |-> f.m, ok |-> dst_id # 0, dst_id |-> dst_id, size |-> size,
              rhs_value |-> register(f.m, src_id)]
        ELSE Bind(fetch_sized(f.m, size), LAMBDA imm :
                [m |-> imm.m, ok |-> dst_id # 0, dst_id |-> dst_id, size |-> size,
                 rhs_value |-> imm.v])))))

\* The operand decoding shared by the two-operand instructions: the RM byte,
\* then an immediate of the chosen width when the source field is 0.
RmDecode(m) ==
    Bind(fetch_byte(m), LAMBDA f :
    Bind(RegisterId_from_u8(f.v % 8), LAMBDA src_id :
    Bind(RegisterId_from_u8((f.v \div 8) % 8), LAMBDA dst_id :
    Bind(SizeOf(f.v), LAMBDA size :
        IF dst_id = 0
        THEN [m |-> f.m, ok |-> FALSE, dst_id |-> 0, size |-> size, rhs_value |-> u64(0)]
        ELSE IF src_id # 0
        THEN [m |-> f.m, ok |-> TRUE, dst_id |-> dst_id, size |-> size,
              rhs_value |-> register(f.m, src_id)]
        ELSE Bind(fetch_sized(f.m, size), LAMBDA imm :
                [m |-> imm.m, ok |-> TRUE, dst_id |-> dst_id, size |-> size,
                 rhs_value |-> imm.v])))))

\* The operand decoding of the one-register instructions.
RegDecode(m) ==
    Bind(fetch_byte(m), LAMBDA f :
        [m |-> f.m, ok |-> RegisterId_from_u8(f.v % 8) # 0,
         id |-> RegisterId_from_u8(f.v % 8), size |-> SizeOf(f.v)])

\* A faulty HLT: the halted flag is not set.
HLT_not_halting(m) == Ok(m)

HLT(m) == Ok(IF m.panicked THEN m ELSE [m EXCEPT !.halted = TRUE])

MOV(m) ==
    Bind(RmDecode(m), LAMBDA d :
        IF ~d.ok THEN Err(d.m, INVALID_INSTRUCTION)
        ELSE Ok(register_assign_sized(d.m, d.dst_id, d.rhs_value, d.size)))

\* A faulty ADD: Carry compares the whole registers, not the truncated ones.
ADD_carry_untruncated(m) ==
    Bind(RmDecode(m), LAMBDA d :
        IF ~d.ok THEN Err(d.m, INVALID_INSTRUCTION)
        ELSE
    Bind(register(d.m, d.dst_id), LAMBDA lhs :
    Bind(wrapping_add(lhs, d.rhs_value), LAMBDA result :
        LET m1 == set_flag(d.m, Zero, trunucate_value(result, d.size) = u64(0))
            m2 == set_flag(m1, Negative, get_sign_bit(result, d.size))
            m3 == set_flag(m2, Carry, U64Lt(result, lhs))
            m4 == set_flag(m3, Overflow, does_signed_add_overflow(lhs, d.rhs_value, d.size))
        IN  Ok(register_assign_sized(m4, d.dst_id, result, d.size)))))

ADD(m) ==
    Bind(RmDecode(m), LAMBDA d :
        IF ~d.ok THEN Err(d.m, INVALID_INSTRUCTION)
        ELSE
    Bind(register(d.m, d.dst_id), LAMBDA lhs :
    Bind(wrapping_add(lhs, d.rhs_value), LAMBDA result :
        LET m1 == set_flag(d.m, Zero, trunucate_value(result, d.size) = u64(0))
            m2 == set_flag(m1, Negative, get_sign_bit(result, d.size))
            m3 == set_flag(m2, Carry,
                           U64Lt(trunucate_value(result, d.size),
                                 trunucate_value(lhs, d.size)))
            m4 == set_flag(m3, Overflow, does_signed_add_overflow(lhs, d.rhs_value, d.size))
        IN  Ok(register_assign_sized(m4, d.dst_id, result, d.size)))))

\* The flags SUB and CMP set from lhs - rhs.
SubFlags(m, lhs, rhs_value, size) ==
    Bind(wrapping_sub(lhs, rhs_value), LAMBDA result :
        LET m1 == set_flag(m, Zero, result = u64(0))
            m2 == set_flag(m1, Negative, get_sign_bit(result, size))
            m3 == set_flag(m2, Carry,
                           U64Lt(trunucate_value(lhs, size), trunucate_value(result, size)))
        IN  set_flag(m3, Overflow, does_signed_sub_overflow(lhs, rhs_value, size)))

SUB(m) ==
    Bind(RmDecode(m), LAMBDA d :
        IF ~d.ok THEN Err(d.m, INVALID_INSTRUCTION)
        ELSE
    Bind(register(d.m, d.dst_id), LAMBDA lhs :
        Ok(register_assign_sized(SubFlags(d.m, lhs, d.rhs_value, d.size),
                                 d.dst_id, wrapping_sub(lhs, d.rhs_value), d.size))))

\* A faulty CMP: the difference is written back, as SUB does.
CMP_writing_result(m) == SUB(m)

CMP(m) ==
    Bind(RmDecode(m), LAMBDA d :
        IF ~d.ok THEN Err(d.m, INVALID_INSTRUCTION)
        ELSE Ok(SubFlags(d.m, register(d.m, d.dst_id), d.rhs_value, d.size)))

DIV(m) ==
    Bind(RmDecode(m), LAMBDA d :
        IF ~d.ok THEN Err(d.m, INVALID_INSTRUCTION)
        ELSE IF d.rhs_value = u64(0) THEN Err(d.m, DIVIDE_BY_ZERO)
        ELSE
    Bind(register(d.m, d.dst_id), LAMBDA lhs :
    Bind(wrapping_div(lhs, d.rhs_value), LAMBDA result :
        LET m1 == set_flag(d.m, Zero, result = u64(0))
            m2 == set_flag(m1, Zero, get_sign_bit(result, d.size))
            m3 == set_flag(m2, Carry, does_unsigned_div_overflow(lhs, d.rhs_value, d.size))
        IN  Ok(register_assign_sized(m3, d.dst_id, result, d.size)))))

\* The exact product of two u64s: 16 base-256 digits.
MulFull(a, b) ==
    LET col(k) == LET t[i \in 0..8] ==
                          IF i = 0 THEN 0
                          ELSE t[i-1] + (IF k - (i-1) \in 0..7 THEN a[i-1] * b[k - (i-1)] ELSE 0)
                  IN  t[8]
        c[k \in 0..16] == IF k = 0 THEN 0 ELSE (col(k-1) + c[k-1]) \div 256
    IN  Bind([k \in 1..16 |-> (col(k-1) + c[k-1]) % 256] \o <<>>, LAMBDA digits :
            [k \in 0..15 |-> digits[k+1]])

wrapping_mul(a, b) == Tab8(MulFull(a, b))

\* (lhs as uN).checked_mul(rhs as uN).is_none(): the product of the truncated
\* operands does not fit in `size` bytes.
does_unsigned_mul_overflow(lhs, rhs, size) ==
    Bind(MulFull(trunucate_value(lhs, size), trunucate_value(rhs, size)), LAMBDA p :
        \E k \in size..15 : p[k] # 0)

\* The magnitude of a value read as a two's-complement number of the width.
Magnitude(v, size) ==
    IF get_sign_bit(v, size)
    THEN trunucate_value(wrapping_sub(u64(0), v), size)
    ELSE trunucate_value(v, size)

\* A faulty signed test: the operands are multiplied as unsigned numbers.
does_signed_mul_overflow_unsigned(lhs, rhs, size) ==
    does_unsigned_mul_overflow(lhs, rhs, size)

\* (lhs as iN).checked_mul(rhs as iN).is_none(): the product of the operands
\* read as two's-complement numbers of the width is outside the signed range.
does_signed_mul_overflow(lhs, rhs, size) ==
    Bind(MulFull(Magnitude(lhs, size), Magnitude(rhs, size)), LAMBDA p :
        LET negative == get_sign_bit(lhs, size) # get_sign_bit(rhs, size)
            fits_positive == (\A k \in size..15 : p[k] = 0) /\ p[size - 1] < 128
            is_min == /\ \A k \in size..15 : p[k] = 0
                      /\ p[size - 1] = 128
                      /\ \A k \in 0..(size - 2) : p[k] = 0
        IN  ~(fits_positive \/ (negative /\ is_min)))

MUL(m) ==
    Bind(RmDecode(m), LAMBDA d :
        IF ~d.ok THEN Err(d.m, INVALID_INSTRUCTION)
        ELSE
    Bind(register(d.m, d.dst_id), LAMBDA lhs :
    Bind(wrapping_mul(lhs, d.rhs_value), LAMBDA result :
        LET m1 == set_flag(d.m, Zero, result = u64(0))
            m2 == set_flag(m1, Zero, get_sign_bit(result, d.size))
            m3 == set_flag(m2, Carry, does_unsigned_mul_overflow(lhs, d.rhs_value, d.size))
            m4 == set_flag(m3, Overflow, does_signed_mul_overflow(lhs, d.rhs_value, d.size))
        IN  Ok(register_assign_sized(m4, d.dst_id, result, d.size)))))

\* The bitwise operators |, ^, & and ! on u64.
BitBitwise(op, p, q) ==
    CASE op = "or"  -> IF p + q > 0 THEN 1 ELSE 0
      [] op = "xor" -> (p + q) % 2
      [] OTHER      -> p * q

ByteBitwise(op, x, y) ==
    LET t[i \in 0..8] ==
            IF i = 0 THEN 0
            ELSE t[i-1] + BitBitwise(op, (x \div Pow2(i-1)) % 2, (y \div Pow2(i-1)) % 2)
                            * Pow2(i-1)
    IN  t[8]

Bitwise(op, a, b) == Tab8([k \in 0..7 |-> ByteBitwise(op, a[k], b[k])])

BitNot(a) == Tab8([k \in 0..7 |-> 255 - a[k]])

\* OR, XOR and AND: the second set_flag overwrites Zero with the sign bit.
Logical(op, m) ==
    Bind(RmDecode(m), LAMBDA d :
        IF ~d.ok THEN Err(d.m, INVALID_INSTRUCTION)
        ELSE
    Bind(Bitwise(op, register(d.m, d.dst_id), d.rhs_value), LAMBDA result :
        LET m1 == set_flag(d.m, Zero, result = u64(0))
            m2 == set_flag(m1, Zero, get_sign_bit(result, d.size))
        IN  Ok(register_assign_sized(m2, d.dst_id, result, d.size))))

OR(m) == Logical("or", m)
XOR(m) == Logical("xor", m)
AND(m) == Logical("and", m)

NOT(m) ==
    Bind(RegDecode(m), LAMBDA d :
        IF ~d.ok THEN Err(d.m, INVALID_INSTRUCTION)
        ELSE
    Bind(BitNot(register(d.m, d.id)), LAMBDA result :
        LET m1 == set_flag(d.m, Zero, result = u64(0))
            m2 == set_flag(m1, Negative, get_sign_bit(result, d.size))
        IN  Ok(register_assign_sized(m2, d.id, result, d.size))))

NEG(m) ==
    Bind(RegDecode(m), LAMBDA d :
        IF ~d.ok THEN Err(d.m, INVALID_INSTRUCTION)
        ELSE
    Bind(wrapping_sub(u64(0), register(d.m, d.id)), LAMBDA result :
        LET m1 == set_flag(d.m, Zero, result = u64(0))
            m2 == set_flag(m1, Negative, get_sign_bit(result, d.size))
        IN  Ok(register_assign_sized(m2, d.id, result, d.size))))

PUSH(m) ==
    Bind(RegDecode(m), LAMBDA d :
        IF ~d.ok THEN Err(d.m, INVALID_INSTRUCTION)
        ELSE Ok(push_qword(d.m, register(d.m, d.id))))

POP(m) ==
    Bind(RegDecode(m), LAMBDA d :
        IF ~d.ok THEN Err(d.m, INVALID_INSTRUCTION)
        ELSE Bind(pop_qword(d.m), LAMBDA p : Ok(register_assign(p.m, d.id, p.v))))

PUSHF(m) == Ok(push_flags(m))

POPF(m) == Ok(pop_flags(m))

\* STR writes all 8 bytes of the register whatever the size field says.
STR(m) ==
    Bind(RegDecode(m), LAMBDA d :
        IF ~d.ok THEN Err(d.m, INVALID_INSTRUCTION)
        ELSE Bind(get_effective_address(d.m), LAMBDA a :
                Ok(write(a.m, to_le_bytes(register(a.m, d.id)), a.v))))

\* LDR reads 8 bytes at the address and assigns the low `size` of them.
LDR(m) ==
    Bind(RegDecode(m), LAMBDA d :
        IF ~d.ok THEN Err(d.m, INVALID_INSTRUCTION)
        ELSE
    Bind(get_effective_address(d.m), LAMBDA a :
    Bind(read(a.m, ZeroBuf(8), a.v), LAMBDA r :
        Ok(register_assign_sized(r.m, d.id, from_le_bytes(r.buf), d.size)))))

LEA(m) ==
    Bind(RegDecode(m), LAMBDA d :
        IF ~d.ok THEN Err(d.m, INVALID_INSTRUCTION)
        ELSE Bind(get_effective_address(d.m), LAMBDA a :
                Ok(register_assign_sized(a.m, d.id, a.v, d.size))))

\* A jump: the effective address is decoded, then assigned to IP if `taken`
\* holds of the flags.
Jump(m, taken) ==
    Bind(get_effective_address(m), LAMBDA a :
        Ok(IF taken THEN register_assign(a.m, Ip, a.v) ELSE a.m))

JMP(m) == Jump(m, TRUE)
JZ(m)  == Jump(m, get_flag(m, Zero))
JNZ(m) == Jump(m, ~get_flag(m, Zero))
JO(m)  == Jump(m, get_flag(m, Overflow))
JNO(m) == Jump(m, ~get_flag(m, Overflow))
JS(m)  == Jump(m, get_flag(m, Negative))
JNS(m) == Jump(m, ~get_flag(m, Negative))
JC(m)  == Jump(m, get_flag(m, Carry))
JNC(m) == Jump(m, ~get_flag(m, Carry))
JBE(m) == Jump(m, get_flag(m, Carry) \/ get_flag(m, Zero))
JA(m)  == Jump(m, ~get_flag(m, Carry) \/ ~get_flag(m, Zero))
JL(m)  == Jump(m, get_flag(m, Negative) # get_flag(m, Overflow))
JGE(m) == Jump(m, get_flag(m, Negative) = get_flag(m, Overflow))
JLE(m) == Jump(m, get_flag(m, Zero) \/ get_flag(m, Negative) # get_flag(m, Overflow))
JG(m)  == Jump(m, ~get_flag(m, Zero) /\ get_flag(m, Negative) = get_flag(m, Overflow))

CALL(m) ==
    Bind(get_effective_address(m), LAMBDA a :
        Ok(register_assign(push_qword(a.m, register(a.m, Ip)), Ip, a.v)))

RET(m) ==
    Bind(pop_qword(m), LAMBDA p : Ok(register_assign(p.m, Ip, p.v)))

LIDT(m) ==
    Bind(get_effective_address(m), LAMBDA a :
        Ok(IF a.m.panicked THEN a.m ELSE [a.m EXCEPT !.idt = a.v]))

\* A faulty RETI: the flags are popped before the return address.
RETI_flags_first(m) ==
    Bind(pop_qword(pop_flags(m)), LAMBDA p : Ok(register_assign(p.m, Ip, p.v)))

RETI(m) ==
    Bind(pop_qword(m), LAMBDA p : Ok(register_assign(pop_flags(p.m), Ip, p.v)))

INT(m) ==
    Bind(fetch_byte(m), LAMBDA f : Ok(interrupt_request(f.m, f.v)))

CLI(m) == Ok(set_flag(m, InterruptEnable, FALSE))

STI(m) == Ok(set_flag(m, InterruptEnable, TRUE))

\* A port device is an external module; the model keeps one as the last
\* value written to it, which a read returns.
PortDevice_write(device, value) == value
PortDevice_read(device) == device

\* PortBus::write and PortBus::read.  entries[port as usize] is out of
\* bounds for port 0xffff: the array has 0xffff slots.
port_bus_write(m, port, value) ==
    IF m.panicked THEN m
    ELSE IF port >= PortSlots THEN Panic(m)
    ELSE IF port \in DOMAIN m.port_bus
    THEN [m EXCEPT !.port_bus[port] = PortDevice_write(@, value)]
    ELSE m

port_bus_read(m, port) ==
    IF m.panicked THEN [m |-> m, v |-> u64(0)]
    ELSE IF port >= PortSlots THEN [m |-> Panic(m), v |-> u64(0)]
    ELSE IF port \in DOMAIN m.port_bus
    THEN [m |-> m, v |-> PortDevice_read(m.port_bus[port])]
    ELSE [m |-> m, v |-> Tab8([k \in 0..7 |-> 255])]

IN_(m) ==
    Bind(RegDecode(m), LAMBDA d :
        IF ~d.ok THEN Err(d.m, INVALID_INSTRUCTION)
        ELSE
    Bind(fetch_word(d.m), LAMBDA port :
    Bind(port_bus_read(port.m, Val(port.v)), LAMBDA r :
        Ok(register_assign(r.m, d.id, r.v)))))

OUT(m) ==
    Bind(RegDecode(m), LAMBDA d :
        IF ~d.ok THEN Err(d.m, INVALID_INSTRUCTION)
        ELSE Bind(fetch_word(d.m), LAMBDA port :
                Ok(port_bus_write(port.m, Val(port.v), register(port.m, d.id)))))

NOP(m) == Ok(m)

(***************************************************************************)
(* The opcode table (cpu/instruction_lookup.rs): opcode n is entry n + 1;  *)
(* an opcode beyond the table has no callback.                             *)
(***************************************************************************)
LOOKUP_TABLE ==
    <<"HLT", "MOV", "ADD", "SUB", "MUL", "DIV", "OR", "XOR", "AND", "NOT", "NEG",
      "CMP", "PUSH", "POP", "PUSHF", "POPF", "STR", "LDR", "LEA", "JMP", "JZ",
      "JNZ", "JO", "JNO", "JS", "JNS", "JC", "JNC", "JBE", "JA", "JL", "JGE",
      "JLE", "JG", "CALL", "RET", "LIDT", "RETI", "INT", "CLI", "STI", "IN",
      "OUT", "NOP">>

HasCallback(opcode) == opcode + 1 \in DOMAIN LOOKUP_TABLE

Callback(name, m) ==
    CASE name = "HLT" -> HLT(m)   [] name = "MOV" -> MOV(m)   [] name = "ADD" -> ADD(m)
      [] name = "SUB" -> SUB(m)   [] name = "MUL" -> MUL(m)   [] name = "DIV" -> DIV(m)
      [] name = "OR" -> OR(m)     [] name = "XOR" -> XOR(m)   [] name = "AND" -> AND(m)
      [] name = "NOT" -> NOT(m)   [] name = "NEG" -> NEG(m)   [] name = "CMP" -> CMP(m)
      [] name = "PUSH" -> PUSH(m) [] name = "POP" -> POP(m)   [] name = "PUSHF" -> PUSHF(m)
      [] name = "POPF" -> POPF(m) [] name = "STR" -> STR(m)   [] name = "LDR" -> LDR(m)
      [] name = "LEA" -> LEA(m)   [] name = "JMP" -> JMP(m)   [] name = "JZ" -> JZ(m)
      [] name = "JNZ" -> JNZ(m)   [] name = "JO" -> JO(m)     [] name = "JNO" -> JNO(m)
      [] name = "JS" -> JS(m)     [] name = "JNS" -> JNS(m)   [] name = "JC" -> JC(m)
      [] name = "JNC" -> JNC(m)   [] name = "JBE" -> JBE(m)   [] name = "JA" -> JA(m)
      [] name = "JL" -> JL(m)     [] name = "JGE" -> JGE(m)   [] name = "JLE" -> JLE(m)
      [] name = "JG" -> JG(m)     [] name = "CALL" -> CALL(m) [] name = "RET" -> RET(m)
      [] name = "LIDT" -> LIDT(m) [] name = "RETI" -> RETI(m) [] name = "INT" -> INT(m)
      [] name = "CLI" -> CLI(m)   [] name = "STI" -> STI(m)   [] name = "IN" -> IN_(m)
      [] name = "OUT" -> OUT(m)   [] OTHER -> NOP(m)

execute_opcode(m, opcode) ==
    IF HasCallback(opcode)
    THEN Bind(Callback(LOOKUP_TABLE[opcode + 1],
                       Logged(m, [op |-> "execute",
                                  instruction |-> LOOKUP_TABLE[opcode + 1]])),
              LAMBDA r :
            IF ~r.ok THEN non_maskable_interrupt_request(r.m, r.vec) ELSE r.m)
    ELSE non_maskable_interrupt_request(Logged(m, [op |-> "invalid", opcode |-> opcode]),
                                        INVALID_INSTRUCTION)

\* A faulty clock: the halted test is missing.
clock_ignoring_halted(m) == Bind(fetch_byte(m), LAMBDA f : execute_opcode(f.m, f.v))

clock(m) ==
    IF ~m.halted
    THEN Bind(fetch_byte(m), LAMBDA f : execute_opcode(f.m, f.v))
    ELSE m

(***************************************************************************)
(* Guest programs.  An image is the file main() loads at address 0: the    *)
(* entry point qword (8), the code from address 8, an interrupt            *)
(* descriptor table of 256 slots at 0x100 and handlers from 0x900.         *)
(***************************************************************************)
Opcode(name) == (CHOOSE i \in DOMAIN LOOKUP_TABLE : LOOKUP_TABLE[i] = name) - 1

\* The RM byte and the effective-address operand of an encoding.
Rm(src, dst, sel) == src + 8 * dst + 64 * sel
Ea(base, index, k) == <<base + 8 * index>> \o to_le_bytes(k)

\* 0xffff_ffff_ffff_ff00 + n
High(n) == Tab8([k \in 0..7 |-> IF k = 0 THEN n ELSE 255])

IdtBase == u64(256)

\* Installed vectors and their handlers; every other slot of the table is 0.
HandlerOf(vector) ==
    CASE vector = DIVIDE_BY_ZERO      -> 2304
      [] vector = INVALID_INSTRUCTION -> 2320
      [] vector = 32                  -> 2336
      [] vector = 255                 -> 2352
      [] vector = 33                  -> 2368
      [] OTHER                        -> 0

\* The handler code: vector 0 halts, vector 33 raises vector 32 before it
\* returns, the others return.
HandlerCode(address) ==
    CASE address = 2304 -> Opcode("HLT")
      [] address \in {2320, 2336, 2352, 2370} -> Opcode("RETI")
      [] address = 2368 -> Opcode("INT")
      [] address = 2369 -> 32
      [] OTHER -> 0

\* The image from address 0x100 on: the table, then the handlers.
ImageTail ==
    [i \in 1..(8 * 256 + 67) |->
        LET a == i - 1
        IN  IF a < 8 * 256
            THEN IF HandlerOf(a \div 8) = 0 THEN 0 ELSE u64(HandlerOf(a \div 8))[a % 8]
            ELSE HandlerCode(a + 256)] \o <<>>

Image(code) == to_le_bytes(u64(8)) \o code \o ZeroBuf(248 - Len(code)) \o ImageTail

\* What comes before the instructions under test.
Prologues ==
    { <<>>,
      <<Opcode("LIDT")>> \o Ea(0, 0, IdtBase),
      <<Opcode("LIDT")>> \o Ea(0, 0, IdtBase) \o <<Opcode("CLI")>>,
      <<Opcode("MOV"), Rm(0, X0, 3)>> \o to_le_bytes(High(5))
          \o <<Opcode("LIDT")>> \o Ea(0, 0, IdtBase),
      <<Opcode("MOV"), Rm(0, X0, 3)>> \o to_le_bytes(High(5))
          \o <<Opcode("LIDT")>> \o Ea(0, 0, IdtBase) \o <<Opcode("CLI")>>,
      <<Opcode("MOV"), Rm(0, Sp, 2), 16, 0, 10, 0>>
          \o <<Opcode("LIDT")>> \o Ea(0, 0, IdtBase),
      <<Opcode("MOV"), Rm(0, Sp, 3)>> \o to_le_bytes(u64(8))
          \o <<Opcode("LIDT")>> \o Ea(0, 0, IdtBase),
      <<Opcode("LIDT")>> \o Ea(0, 0, High(0)),
      <<Opcode("MOV"), Rm(0, X0, 3)>> \o to_le_bytes(High(5))
          \o <<Opcode("PUSH"), X0, Opcode("POPF")>>
          \o <<Opcode("LIDT")>> \o Ea(0, 0, IdtBase),
      <<Opcode("MOV"), Rm(0, X0, 3)>> \o to_le_bytes(High(21))
          \o <<Opcode("PUSH"), X0, Opcode("POPF")>>
          \o <<Opcode("LIDT")>> \o Ea(0, 0, IdtBase),
      <<Opcode("CLI")>> }

\* The instructions under test.
Pool ==
    { <<Opcode("HLT")>>,
      <<Opcode("NOP")>>,
      <<Opcode("CLI")>>,
      <<Opcode("STI")>>,
      <<Opcode("INT"), DIVIDE_BY_ZERO>>,
      <<Opcode("INT"), 2>>,
      <<Opcode("INT"), 32>>,
      <<Opcode("INT"), 255>>,
      <<Opcode("INT"), 33>>,
      <<Opcode("DIV"), Rm(0, X0, 0), 0>>,
      <<Opcode("DIV"), Rm(0, X0, 3)>> \o to_le_bytes(u64(0)),
      <<Opcode("DIV"), Rm(X1, X0, 1)>>,
      <<Opcode("DIV"), Rm(0, X0, 0), 2>>,
      <<Opcode("DIV"), Rm(0, 0, 0)>>,
      <<Opcode("MOV"), Rm(0, X1, 0), 7>>,
      <<Opcode("PUSHF")>>,
      <<255>> }

Programs == {p \o i : p \in Prologues, i \in Pool}

(***************************************************************************)
(* The host (src/src/main.rs).                                             *)
(***************************************************************************)
\* The Cpu with its buses as one machine, and back.
Machine ==
    [registers |-> registers, idt |-> idt, flags |-> flags, halted |-> halted,
     address_bus |-> address_bus, port_bus |-> port_bus, panicked |-> panicked,
     debug |-> debug, log |-> <<>>]

Becomes(m, op) ==
    /\ registers' = m.registers
    /\ idt' = m.idt
    /\ flags' = m.flags
    /\ halted' = m.halted
    /\ address_bus' = m.address_bus
    /\ port_bus' = m.port_bus
    /\ panicked' = m.panicked
    /\ debug' = m.debug
    /\ last' = [op |-> op, pre |-> Machine, log |-> m.log,
                before |-> [op |-> last.op, ip |-> last.pre.registers[to_index(Ip)],
                            sp |-> last.pre.registers[to_index(Sp)], log |-> last.log]]

\* Cpu::new: the zeroed Cpu, reset.
Cpu_new(bus, ports, dbg) ==
    reset([registers |-> [i \in 0..6 |-> u64(0)], idt |-> u64(0), flags |-> u64(0),
           halted |-> FALSE, address_bus |-> bus, port_bus |-> ports,
           panicked |-> FALSE, debug |-> dbg, log |-> <<>>])

\* main() without a config file: one Memory of 0xa0000 bytes at address 0,
\* the image written at address 0.
load_file(bus, data) == AddressBus_write(bus, data, u64(0))

DefaultBus == add_entry(AddressBus_new, u64(0), u64(655360), Memory_new(655360)).entries

Init ==
    \E code \in Programs, dbg \in BOOLEAN :
        \E m \in {Cpu_new(load_file(DefaultBus, Image(code)), PortBus_new, dbg)} :
            /\ registers = m.registers
            /\ idt = m.idt
            /\ flags = m.flags
            /\ halted = m.halted
            /\ address_bus = m.address_bus
            /\ port_bus = m.port_bus
            /\ panicked = m.panicked
            /\ debug = m.debug
            /\ main_pc = "loop"
            /\ last = [op |-> "new", pre |-> m, log |-> m.log]
            /\ clocks = 0
            /\ resets = 0
            /\ adds = 1
            /\ transfers = 1

\* One iteration of main's loop: cpu.clock(), then the halted test that only
\* prints.  The loop has no exit.
Clock ==
    /\ main_pc = "loop"
    /\ ~panicked
    /\ clocks < MaxClocks
    /\ \E m \in {clock(Machine)} : Becomes(m, "clock")
    /\ main_pc' = "loop"
    /\ clocks' = clocks + 1
    /\ UNCHANGED <<resets, adds, transfers>>

\* The host calls Cpu::reset.
Reset ==
    /\ main_pc = "loop"
    /\ ~panicked
    /\ resets < MaxResets
    /\ \E m \in {reset(Machine)} : Becomes(m, "reset")
    /\ resets' = resets + 1
    /\ UNCHANGED <<main_pc, clocks, adds, transfers>>

Next == Clock \/ Reset

Spec == Init /\ [][Next]_vars

(***************************************************************************)
(* What the properties below speak of: the memory as stored data, the      *)
(* registers by name, and the record `last` of the latest operation.       *)
(***************************************************************************)
\* Address a is mapped by a device of the bus; the byte stored there (0 where
\* nothing is mapped, as a read into a zeroed buffer finds it); a qword.
Mapped(bus, a) == \E i \in DOMAIN bus : ~U64Lt(a, bus[i].start) /\ U64Lt(a, bus[i].end)

ByteAt(bus, a) ==
    IF Mapped(bus, a)
    THEN LET i == CHOOSE j \in DOMAIN bus : ~U64Lt(a, bus[j].start) /\ U64Lt(a, bus[j].end)
         IN  MemByte(bus[i].device, Val(wrapping_sub(a, bus[i].start)))
    ELSE 0

QwordMapped(bus, a) ==
    ~add_overflows(a, u64(7)) /\ \A k \in 0..7 : Mapped(bus, wrapping_add(a, u64(k)))

QwordAt(bus, a) == Tab8([k \in 0..7 |-> ByteAt(bus, wrapping_add(a, u64(k)))])

IP == registers[to_index(Ip)]
SP == registers[to_index(Sp)]

\* The positions of the log of the latest operation that hold an entry `op`.
LogEntries(op) == {i \in DOMAIN last.log : last.log[i].op = op}

\* The latest operation was a clock() that dispatched instruction `name`.
Executed(name) ==
    /\ last.op = "clock"
    /\ \E i \in LogEntries("execute") : last.log[i].instruction = name

\* The slot of an interrupt entry e of the log, and whether it lies in
\* mapped memory and holds a handler address.
SlotOf(e) == wrapping_add(e.idt, u64(8 * e.idt_entry))

Installed(e) ==
    /\ e.idt # u64(0)
    /\ ~add_overflows(e.idt, u64(8 * e.idt_entry))
    /\ QwordMapped(last.pre.address_bus, SlotOf(e))
    /\ QwordAt(last.pre.address_bus, SlotOf(e)) # u64(0)

NotInstalled(e) ==
    \/ e.idt = u64(0)
    \/ /\ ~add_overflows(e.idt, u64(8 * e.idt_entry))
       /\ QwordMapped(last.pre.address_bus, SlotOf(e))
       /\ QwordAt(last.pre.address_bus, SlotOf(e)) = u64(0)

(***************************************************************************)
(* Properties.                                                             *)
(***************************************************************************)
\* C1: once the CPU is halted, a clock() call is a no-op: registers, flags,
\* idt, the halted flag, memory and port devices are unchanged and the bus
\* is not touched, however many clock() calls follow.
C1_HaltedClockIsNoOp ==
    (last.op = "clock" /\ last.pre.halted) => (Machine = last.pre /\ last.log = <<>>)

C1_Witness == last.op = "clock" /\ last.pre.halted /\ clocks >= 3

\* C2: reset() clears the halted flag: after reset() of a halted Cpu,
\* halted is false.
C2_ResetClearsHalted == (last.op = "reset" /\ last.pre.halted) => ~halted

\* C3: the host loop clocks the CPU only until it is halted: once the guest
\* has executed HLT, main has left its loop.
C3_HostStopsWhenHalted == halted => main_pc = "exit"

\* C4: reset() sets InterruptEnable, sets IP to the little-endian qword
\* stored at address 0, sets SP to 0xFFFF and leaves X0..X4 unchanged.
C4_Reset ==
    last.op = "reset" =>
        /\ BitOf(flags, InterruptEnable) = 1
        /\ IP = QwordAt(last.pre.address_bus, u64(0))
        /\ SP = u64(65535)
        /\ \A id \in {X0, X1, X2, X3, X4} :
              registers[to_index(id)] = last.pre.registers[to_index(id)]

C4_Witness ==
    /\ last.op = "reset"
    /\ BitOf(last.pre.flags, InterruptEnable) = 0
    /\ last.pre.registers[to_index(X0)] # u64(0)
    /\ last.pre.registers[to_index(Ip)] # IP

\* C5: executing HLT sets halted and changes nothing else except that IP has
\* advanced by 1; with entry point 8 and HLT at address 8, one clock() after
\* construction gives halted and IP = 9.
C5_HLT ==
    Executed("HLT") =>
        /\ Machine = [last.pre EXCEPT !.halted = TRUE,
                                      !.registers[to_index(Ip)] = wrapping_add(@, u64(1))]
        /\ LogEntries("write") = {}
        /\ (clocks = 1 /\ resets = 0) => (halted /\ IP = u64(9))

C5_Witness == Executed("HLT") /\ clocks = 1 /\ resets = 0 /\ halted /\ IP = u64(9)

\* C6: an opcode with no entry in the opcode table is delivered as the
\* INVALID_INSTRUCTION interrupt whether InterruptEnable is 0 or 1: the
\* interrupt handler runs for that vector with the Cpu as the fetch left it,
\* and enters the installed handler or resets.
C6_InvalidOpcode ==
    (last.op = "clock" /\ LogEntries("invalid") # {}) =>
        \E i \in LogEntries("interrupt") :
            /\ i - 1 \in LogEntries("invalid")
            /\ last.log[i].idt_entry = INVALID_INSTRUCTION
            /\ last.log[i].flags = last.pre.flags
            /\ last.log[i].ip = wrapping_add(last.pre.registers[to_index(Ip)], u64(1))
            /\ ~panicked =>
                  IF Installed(last.log[i])
                  THEN /\ IP = QwordAt(last.pre.address_bus, SlotOf(last.log[i]))
                       /\ SP = wrapping_sub(last.log[i].sp, u64(16))
                  ELSE LogEntries("reset") # {}

C6_Witness ==
    /\ last.op = "clock"
    /\ LogEntries("invalid") # {}
    /\ BitOf(last.pre.flags, InterruptEnable) = 0
    /\ ~panicked
    /\ \E i \in LogEntries("interrupt") :
          Installed(last.log[i]) /\ IP = QwordAt(last.pre.address_bus, SlotOf(last.log[i]))

\* C7: a dispatch of vector n with idt # 0 and a nonzero handler address h in
\* the slot at idt + 8n pushes the flags, then IP: afterwards SP is the SP
\* before less 16, the qword at SP is the IP before, the qword at SP + 8 the
\* flags before, and IP = h.
C7_Dispatch ==
    \A i \in LogEntries("interrupt") :
        Installed(last.log[i]) =>
            /\ SP = wrapping_sub(last.log[i].sp, u64(16))
            /\ QwordAt(address_bus, SP) = last.log[i].ip
            /\ QwordAt(address_bus, wrapping_add(SP, u64(8))) = last.log[i].flags
            /\ IP = QwordAt(last.pre.address_bus, SlotOf(last.log[i]))

\* C8: a dispatch with idt = 0, or with 0 in the slot of the vector, resets
\* the CPU: nothing is pushed, and IP is the entry address stored at address
\* 0, SP = 0xFFFF and InterruptEnable = 1.
C8_FailStop ==
    \A i \in LogEntries("interrupt") :
        NotInstalled(last.log[i]) =>
            /\ LogEntries("reset") # {}
            /\ LogEntries("write") = {}
            /\ address_bus = last.pre.address_bus
            /\ IP = QwordAt(last.pre.address_bus, u64(0))
            /\ SP = u64(65535)
            /\ BitOf(flags, InterruptEnable) = 1

C8_Witness ==
    \E i \in LogEntries("interrupt") :
        /\ last.log[i].idt # u64(0)
        /\ NotInstalled(last.log[i])
        /\ last.log[i].sp # u64(65535)

\* C9: INT is honoured only if InterruptEnable is 1: with InterruptEnable 0
\* it changes nothing except that IP advances by 2, with InterruptEnable 1
\* the interrupt handler runs; CLI clears and STI sets InterruptEnable and
\* change no other bit of the flags.
C9_MaskableInterrupt ==
    /\ (Executed("INT") /\ BitOf(last.pre.flags, InterruptEnable) = 0) =>
          /\ Machine = [last.pre EXCEPT
                           !.registers[to_index(Ip)] = wrapping_add(@, u64(2))]
          /\ LogEntries("interrupt") = {}
          /\ LogEntries("reset") = {}
          /\ LogEntries("write") = {}
    /\ (Executed("INT") /\ BitOf(last.pre.flags, InterruptEnable) = 1) =>
          LogEntries("interrupt") # {}
    /\ Executed("CLI") =>
          \A bit \in 0..63 :
              BitOf(flags, bit) = IF bit = InterruptEnable THEN 0
                                  ELSE BitOf(last.pre.flags, bit)
    /\ Executed("STI") =>
          \A bit \in 0..63 :
              BitOf(flags, bit) = IF bit = InterruptEnable THEN 1
                                  ELSE BitOf(last.pre.flags, bit)

C9_Witness ==
    /\ Executed("INT")
    /\ BitOf(last.pre.flags, InterruptEnable) = 0
    /\ last.pre.idt # u64(0)
    /\ last.pre.flags # u64(0)
    /\ IP = wrapping_add(last.pre.registers[to_index(Ip)], u64(2))

\* The operands of the DIV at the IP of the Cpu before the latest operation:
\* the RM byte, the destination, the divisor, the address after the DIV.
DivRm == ByteAt(last.pre.address_bus, wrapping_add(last.pre.registers[to_index(Ip)], u64(1)))
DivSrc == DivRm % 8
DivDst == (DivRm \div 8) % 8
DivSize == SizeOf(DivRm)
DivImmediate ==
    Tab8([k \in 0..7 |->
        IF k < DivSize
        THEN ByteAt(last.pre.address_bus,
                    wrapping_add(last.pre.registers[to_index(Ip)], u64(2 + k)))
        ELSE 0])
DivRhs ==
    CASE DivSrc = 0  -> DivImmediate
      [] DivSrc = Ip -> wrapping_add(last.pre.registers[to_index(Ip)], u64(2))
      [] OTHER       -> last.pre.registers[to_index(DivSrc)]
DivReturn ==
    wrapping_add(last.pre.registers[to_index(Ip)],
                 u64(IF DivSrc = 0 THEN 2 + DivSize ELSE 2))

\* C10: DIV with a zero divisor raises DIVIDE_BY_ZERO without changing the
\* destination or an arithmetic flag, whether InterruptEnable is 0 or 1; with
\* a handler installed the flags and the address after the DIV are pushed,
\* in this order, and IP becomes the handler address.
C10_DivideByZero ==
    (Executed("DIV") /\ DivDst # 0 /\ DivRhs = u64(0)) =>
        \E i \in LogEntries("interrupt") :
            /\ last.log[i].idt_entry = DIVIDE_BY_ZERO
            /\ last.log[i].ip = DivReturn
            /\ last.log[i].flags = last.pre.flags
            /\ DivDst \notin {Sp, Ip} =>
                  registers[to_index(DivDst)] = last.pre.registers[to_index(DivDst)]
            /\ \A flag \in {Negative, Overflow, Zero, Carry} :
                  BitOf(flags, flag) = BitOf(last.pre.flags, flag)
            /\ Installed(last.log[i]) =>
                  /\ \E j \in LogEntries("write") :
                        /\ j + 1 \in LogEntries("write")
                        /\ last.log[j].bytes = to_le_bytes(last.pre.flags)
                        /\ last.log[j].address = wrapping_sub(last.pre.registers[to_index(Sp)], u64(8))
                        /\ last.log[j+1].bytes = to_le_bytes(DivReturn)
                        /\ last.log[j+1].address = wrapping_sub(last.pre.registers[to_index(Sp)], u64(16))
                  /\ IP = QwordAt(last.pre.address_bus, SlotOf(last.log[i]))

(***************************************************************************)
(* The address bus on its own: the host registers devices (main.rs 58-74,  *)
(* config_file_parse.rs 176-196), then transfers bytes (main.rs 36-53).    *)
(* Every device is a Memory as long as its interval that records the calls *)
(* it receives.  `last` also holds the argument and the result of the      *)
(* call, and the call before it.                                           *)
(***************************************************************************)
MaxAdds == 2
MaxTransfers == 2

\* The intervals the host asks for: [0,16), [16,32), [8,24), at the top of
\* the address space [2^64 - 16, 2^64 - 1) and [2^64 - 16, 2^64), and the
\* empty [32,32).
AddRequests ==
    { [address |-> u64(0), length |-> u64(16)],
      [address |-> u64(16), length |-> u64(16)],
      [address |-> u64(8), length |-> u64(16)],
      [address |-> High(240), length |-> u64(15)],
      [address |-> High(240), length |-> u64(16)],
      [address |-> u64(32), length |-> u64(0)] }

\* The transfers the host makes: 8 bytes or none, at 12, 28, 40 and 2^64 - 8.
TransferAddresses == {u64(12), u64(28), u64(40), High(248)}
WriteBuffers == {<<1, 2, 3, 4, 5, 6, 7, 8>>, <<>>}
ReadBuffers == {<<170, 170, 170, 170, 170, 170, 170, 170>>, <<>>}

Recorder(length) == [calls |-> <<>>] @@ Memory_new(length)

ClearCalls(entries) ==
    [i \in DOMAIN entries |-> [entries[i] EXCEPT !.device.calls = <<>>]]

\* The Cpu fields stay as a zeroed Cpu has them; only the buses move.
BusBecomes(bus, ports, panic) ==
    /\ address_bus' = bus
    /\ port_bus' = ports
    /\ panicked' = panic
    /\ UNCHANGED <<registers, idt, flags, halted, debug, main_pc, clocks, resets>>

Called(op, arg, result) ==
    [op |-> op, pre |-> Machine, log |-> <<>>, arg |-> arg, result |-> result,
     before |-> [op |-> last.op, arg |-> last.arg]]

BusInit ==
    /\ registers = [i \in 0..6 |-> u64(0)]
    /\ idt = u64(0)
    /\ flags = u64(0)
    /\ halted = FALSE
    /\ address_bus = AddressBus_new
    /\ port_bus = PortBus_new
    /\ panicked = FALSE
    /\ debug \in BOOLEAN
    /\ main_pc = "setup"
    /\ last = [op |-> "new", pre |-> <<>>, log |-> <<>>, arg |-> <<>>, result |-> <<>>,
               before |-> [op |-> "none", arg |-> <<>>]]
    /\ clocks = 0
    /\ resets = 0
    /\ adds = 0
    /\ transfers = 0

\* address_bus.add_entry(start, length, device) while the buses are set up.
AddEntry ==
    /\ ~panicked
    /\ transfers = 0
    /\ adds < MaxAdds
    /\ \E req \in AddRequests :
         \E r \in {add_entry(address_bus, req.address, req.length,
                             Recorder(Val(req.length)))} :
            /\ BusBecomes(r.entries, port_bus, r.result = "Panic")
            /\ last' = Called("add_entry", req, r.result)
    /\ adds' = adds + 1
    /\ UNCHANGED transfers

\* address_bus.write(src, address)
BusWrite ==
    /\ ~panicked
    /\ transfers < MaxTransfers
    /\ \E src \in WriteBuffers, address \in TransferAddresses :
         \E m \in {write([Machine EXCEPT !.address_bus = ClearCalls(@)], src, address)} :
            /\ BusBecomes(m.address_bus, port_bus, m.panicked)
            /\ last' = Called("write", [src |-> src, address |-> address], <<>>)
    /\ transfers' = transfers + 1
    /\ UNCHANGED adds

\* address_bus.read(dest, address)
BusRead ==
    /\ ~panicked
    /\ transfers < MaxTransfers
    /\ \E dest \in ReadBuffers, address \in TransferAddresses :
         \E r \in {read(Machine, dest, address)} :
            /\ BusBecomes(address_bus, port_bus, r.m.panicked)
            /\ last' = Called("read", [dest |-> dest, address |-> address], r.buf)
    /\ transfers' = transfers + 1
    /\ UNCHANGED adds

BusNext == AddEntry \/ BusWrite \/ BusRead

BusSpec == BusInit /\ [][BusNext]_vars

(***************************************************************************)
(* Properties of the address bus.                                          *)
(***************************************************************************)
\* The interval [start, start + length) of a request lies wholly below or
\* wholly above the interval of entry e, in exact arithmetic.
RequestDisjoint(req, e) ==
    \/ ~U64Lt(req.address, e.end)
    \/ /\ ~add_overflows(req.address, req.length)
       /\ ~U64Lt(e.start, wrapping_add(req.address, req.length))

\* C11: add(start, length, device) succeeds iff [start, start + length) is
\* disjoint from every registered interval; when it fails, the registered
\* intervals and their devices are what they were before the call.
C11_AddEntry ==
    last.op = "add_entry" =>
        /\ last.result = "Ok" <=>
              \A i \in DOMAIN last.pre.address_bus :
                  RequestDisjoint(last.arg, last.pre.address_bus[i])
        /\ last.result # "Ok" => address_bus = last.pre.address_bus

\* C12: after any sequence of add, write and read calls the registered
\* intervals are pairwise disjoint.
C12_Disjoint ==
    \A i, j \in DOMAIN address_bus :
        i # j => \/ ~U64Lt(address_bus[i].start, address_bus[j].end)
                 \/ ~U64Lt(address_bus[j].start, address_bus[i].end)

C12_Witness ==
    /\ Len(address_bus) = 2
    /\ transfers = 2
    /\ last.pre.address_bus # address_bus
    /\ \E req \in AddRequests :
          \E i \in DOMAIN address_bus : ~RequestDisjoint(req, address_bus[i])

\* The interval of entry e intersects the transfer [a, a + n), in exact
\* arithmetic; the first address of the intersection, and the address after
\* its last.
Intersects(e, a, n) ==
    /\ n > 0
    /\ U64Lt(a, e.end)
    /\ add_overflows(a, u64(n)) \/ U64Lt(e.start, wrapping_add(a, u64(n)))

SharedFrom(e, a) == IF U64Lt(e.start, a) THEN a ELSE e.start

SharedTo(e, a, n) ==
    IF add_overflows(a, u64(n)) \/ U64Lt(e.end, wrapping_add(a, u64(n)))
    THEN e.end ELSE wrapping_add(a, u64(n))

\* C13: write(src, a) splits the transfer at device boundaries: a device
\* whose interval [s, e) intersects [a, a + |src|) receives one call, with
\* the bytes src[max(s,a) - a .. min(e, a + |src|) - a) and the offset
\* max(s,a) - s; every other device receives no call.
C13_WriteSplit ==
    last.op = "write" =>
        \A i \in DOMAIN address_bus :
            LET e == address_bus[i]
                a == last.arg.address
                src == last.arg.src
            IN  IF Intersects(e, a, Len(src))
                THEN /\ Len(e.device.calls) = 1
                     /\ e.device.calls[1].src =
                           SubSeq(src, Val(wrapping_sub(SharedFrom(e, a), a)) + 1,
                                       Val(wrapping_sub(SharedTo(e, a, Len(src)), a)))
                     /\ e.device.calls[1].offset =
                           Val(wrapping_sub(SharedFrom(e, a), e.start))
                ELSE e.device.calls = <<>>

\* Every byte of the transfer [a, a + n) is mapped by a device.
FullyMapped(bus, a, n) ==
    \A k \in 0..(n - 1) :
        ~add_overflows(a, u64(k)) /\ Mapped(bus, wrapping_add(a, u64(k)))

\* C14: write(src, a) followed by read(dst, a) with |dst| = |src| over a
\* region fully mapped by Memory devices, one or several adjacent ones,
\* yields dst = src.
C14_RoundTrip ==
    ( /\ last.op = "read"
      /\ last.before.op = "write"
      /\ last.before.arg.address = last.arg.address
      /\ Len(last.before.arg.src) = Len(last.arg.dest)
      /\ FullyMapped(address_bus, last.arg.address, Len(last.arg.dest)) )
    => last.result = last.before.arg.src

C14_Witness ==
    /\ last.op = "read"
    /\ last.before.op = "write"
    /\ last.before.arg.address = last.arg.address
    /\ Len(address_bus) = 2
    /\ last.arg.dest # last.result
    /\ Len(last.arg.dest) = 8
    /\ FullyMapped(address_bus, last.arg.address, 8)
    /\ Mapped(<<address_bus[1]>>, last.arg.address)
    /\ Mapped(<<address_bus[2]>>, wrapping_add(last.arg.address, u64(7)))

\* Index k (1-based) of the transfer at a has address x.
AtIndex(a, k, x) == ~add_overflows(a, u64(k - 1)) /\ wrapping_add(a, u64(k - 1)) = x

\* C15: where no device is mapped a write changes no device state and a
\* read leaves the bytes of dst as they were, while the mapped bytes of the
\* same transfer are delivered: after a write every device byte in the
\* transfer holds its byte of src and every other device byte is unchanged;
\* after a read every mapped byte of dst holds the device byte and every
\* other byte of dst is unchanged.
C15_Unmapped ==
    /\ last.op = "write" =>
          /\ Len(address_bus) = Len(last.pre.address_bus)
          /\ \A i \in DOMAIN address_bus :
                LET e  == address_bus[i]
                    e0 == last.pre.address_bus[i]
                IN  /\ e.start = e0.start /\ e.end = e0.end
                    /\ \A o \in 0..(e.device.length - 1) :
                          MemByte(e.device, o) =
                             IF \E k \in DOMAIN last.arg.src :
                                    AtIndex(last.arg.address, k, wrapping_add(e.start, u64(o)))
                             THEN last.arg.src[
                                     CHOOSE k \in DOMAIN last.arg.src :
                                        AtIndex(last.arg.address, k,
                                                wrapping_add(e.start, u64(o)))]
                             ELSE MemByte(e0.device, o)
    /\ last.op = "read" =>
          /\ [i \in DOMAIN address_bus |-> [address_bus[i] EXCEPT !.device.calls = <<>>]]
               = [i \in DOMAIN last.pre.address_bus |->
                     [last.pre.address_bus[i] EXCEPT !.device.calls = <<>>]]
          /\ Len(last.result) = Len(last.arg.dest)
          /\ \A k \in DOMAIN last.arg.dest :
                last.result[k] =
                   IF Mapped(address_bus, wrapping_add(last.arg.address, u64(k - 1)))
                   THEN ByteAt(address_bus, wrapping_add(last.arg.address, u64(k - 1)))
                   ELSE last.arg.dest[k]

(***************************************************************************)
(* One instruction from any register contents: the Cpu is constructed over *)
(* an image that holds one instruction at the entry point, X0 and X1 hold  *)
(* values that earlier MOVs have left there and the flags what a POPF has, *)
(* and main clocks it.                                                     *)
(***************************************************************************)
MaxSteps == 1

\* 0, 1, 0x7f, 0x80, 0xff, 0x101, 0xffff_ffff_ffff_ff80, 2^63, 2^63 - 1 and
\* 2^64 - 1.
Values ==
    { u64(0), u64(1), u64(127), u64(128), u64(255), u64(257), High(128),
      from_le_bytes(<<0, 0, 0, 0, 0, 0, 0, 128>>),
      from_le_bytes(<<255, 255, 255, 255, 255, 255, 255, 127>>),
      High(255) }

\* InterruptEnable alone, and with the four arithmetic flags.
FlagValues == {u64(16), u64(31)}

Sizes == 0..3

\* op X0, X1 and op X0 at every width, ADD and SUB X0, 1 at width 1, LDR of
\* the qword at 0x100, and IN from the ports 0x1234 and 0xffff.
Instructions ==
    { <<Opcode(name), Rm(X1, X0, sel)>> :
          name \in {"MOV", "ADD", "SUB", "MUL", "DIV", "OR", "XOR", "AND", "CMP"},
          sel \in Sizes }
    \cup { <<Opcode(name), Rm(X0, 0, sel)>> : name \in {"NOT", "NEG"}, sel \in Sizes }
    \cup { <<Opcode(name), Rm(0, X0, 0), 1>> : name \in {"ADD", "SUB"} }
    \cup { <<Opcode("LDR"), Rm(X0, 0, sel)>> \o Ea(0, 0, IdtBase) : sel \in Sizes }
    \cup { <<Opcode("IN"), X0, 52, 18>>, <<Opcode("IN"), X0, 255, 255>> }

InstrInit ==
    \E code \in Instructions, dbg \in BOOLEAN :
        \E m \in {Cpu_new(load_file(DefaultBus, Image(code)), PortBus_new, dbg)} :
          \E a \in Values, b \in Values, f \in FlagValues :
            /\ registers = [m.registers EXCEPT ![to_index(X0)] = a, ![to_index(X1)] = b]
            /\ idt = m.idt
            /\ flags = f
            /\ halted = m.halted
            /\ address_bus = m.address_bus
            /\ port_bus = m.port_bus
            /\ panicked = m.panicked
            /\ debug = m.debug
            /\ main_pc = "loop"
            /\ last = [op |-> "new", pre |-> m, log |-> m.log]
            /\ clocks = 0
            /\ resets = 0
            /\ adds = 1
            /\ transfers = 1

Step == clocks < MaxSteps /\ Clock

InstrSpec == InstrInit /\ [][Step]_vars

(***************************************************************************)
(* Properties of the instructions.                                         *)
(***************************************************************************)
\* Byte k of the instruction the latest clock() fetched.
CodeByte(k) ==
    ByteAt(last.pre.address_bus, wrapping_add(last.pre.registers[to_index(Ip)], u64(k)))

AllOnes == Tab8([k \in 0..7 |-> 255])

\* C16: for every port p of 0..0xFFFF with no device registered, read(p)
\* returns 0xFFFFFFFFFFFFFFFF and IN dst, p completes with the whole dst
\* register equal to 0xFFFFFFFFFFFFFFFF.
C16_UnmappedPort ==
    ( /\ Executed("IN")
      /\ CodeByte(1) % 8 # 0
      /\ CodeByte(2) + 256 * CodeByte(3) \notin DOMAIN last.pre.port_bus )
    => /\ ~panicked
       /\ registers[to_index(CodeByte(1) % 8)] = AllOnes

(***************************************************************************)
(* The port bus on its own: the host registers devices                     *)
(* (config_file_parse.rs 219-238), then reads and writes ports.  A device  *)
(* is known by the value it holds: the one it was created with, then the   *)
(* last one written to it.                                                 *)
(***************************************************************************)
Ports == {4660, 4661, 65535}
PortDevices == {u64(1), u64(2)}
PortValues == {u64(7)}

\* port_bus.add_device(port, device) while the buses are set up.
AddDevice ==
    /\ ~panicked
    /\ transfers = 0
    /\ adds < MaxAdds
    /\ \E port \in Ports, device \in PortDevices :
         \E r \in {PortBus_add_device(port_bus, port, device)} :
            /\ BusBecomes(address_bus, r.entries, r.result = "Panic")
            /\ last' = Called("add_device", [port |-> port, device |-> device], r.result)
    /\ adds' = adds + 1
    /\ UNCHANGED transfers

\* port_bus.write(port, value)
PortWrite ==
    /\ ~panicked
    /\ transfers < MaxTransfers
    /\ \E port \in Ports, value \in PortValues :
         \E m \in {port_bus_write(Machine, port, value)} :
            /\ BusBecomes(address_bus, m.port_bus, m.panicked)
            /\ last' = Called("port_write", [port |-> port, value |-> value], <<>>)
    /\ transfers' = transfers + 1
    /\ UNCHANGED adds

\* port_bus.read(port)
PortRead ==
    /\ ~panicked
    /\ transfers < MaxTransfers
    /\ \E port \in Ports :
         \E r \in {port_bus_read(Machine, port)} :
            /\ BusBecomes(address_bus, r.m.port_bus, r.m.panicked)
            /\ last' = Called("port_read", [port |-> port], r.v)
    /\ transfers' = transfers + 1
    /\ UNCHANGED adds

PortNext == AddDevice \/ PortWrite \/ PortRead

PortSpec == BusInit /\ [][PortNext]_vars

\* Every slot but that of port p holds what it held before the latest call.
OtherSlotsKept(p) ==
    /\ (DOMAIN port_bus) \ {p} = (DOMAIN last.pre.port_bus) \ {p}
    /\ \A q \in (DOMAIN port_bus) \ {p} : port_bus[q] = last.pre.port_bus[q]

SizedWriters == {"MOV", "ADD", "SUB", "MUL", "DIV", "OR", "XOR", "AND", "NOT", "NEG", "LDR"}

\* The destination field of the RM byte of the latest instruction: bits 3-5
\* for the two-operand instructions, bits 0-2 for NOT, NEG and LDR.
DstField(name) ==
    IF name \in {"NOT", "NEG", "LDR"} THEN CodeByte(1) % 8 ELSE (CodeByte(1) \div 8) % 8

\* The register a sized write found: IP has moved since the clock() began.
Found(e) == IF e.id = Ip THEN e.before ELSE last.pre.registers[to_index(e.id)]

\* C18: every sized register write of width w by MOV, ADD, SUB, MUL, DIV,
\* OR, XOR, AND, NOT, NEG or LDR leaves the bytes of the destination above
\* the low w as they were and makes the low w bytes those of the written
\* value; each of these instructions makes one such write, of the width of
\* its RM byte, unless DIV divides by zero.
C18_SizedWrite ==
    \A name \in SizedWriters :
        (Executed(name) /\ DstField(name) # 0 /\ ~panicked) =>
            /\ \A i \in LogEntries("assign") :
                  LET e == last.log[i]
                  IN  /\ e.id = DstField(name)
                      /\ e.size = SizeOf(CodeByte(1))
                      /\ \A k \in 0..7 :
                            registers[to_index(e.id)][k] =
                               IF k < e.size THEN e.value[k] ELSE Found(e)[k]
            /\ Cardinality(LogEntries("assign")) =
                  IF LogEntries("interrupt") = {} THEN 1 ELSE 0

C18_Witness ==
    /\ Executed("MUL")
    /\ \E i \in LogEntries("assign") :
          /\ last.log[i].size = 2
          /\ last.log[i].value[2] # Found(last.log[i])[2]
          /\ last.log[i].value[0] # Found(last.log[i])[0]
          /\ registers[to_index(X0)][2] = last.pre.registers[to_index(X0)][2]
          /\ registers[to_index(X0)][0] # last.pre.registers[to_index(X0)][0]

\* The operands of the two-operand instruction the latest clock() fetched:
\* the width, the destination and its value before, the source value (a
\* register, or the immediate of the width), all truncated to the width.
AluSize == SizeOf(CodeByte(1))
AluDst == (CodeByte(1) \div 8) % 8
AluSrc == CodeByte(1) % 8
AluLhs == Tab8([k \in 0..7 |->
              IF k < AluSize THEN last.pre.registers[to_index(AluDst)][k] ELSE 0])
AluRhs == Tab8([k \in 0..7 |->
              IF k >= AluSize THEN 0
              ELSE IF AluSrc = 0 THEN CodeByte(2 + k)
              ELSE last.pre.registers[to_index(AluSrc)][k]])

\* The carries of the addition of x and y, byte by byte, with carry c0 into
\* byte 0; the sum at width w; the carry into the top bit of the width.
Carries(x, y, c0) ==
    LET c[k \in 0..8] == IF k = 0 THEN c0 ELSE (x[k-1] + y[k-1] + c[k-1]) \div 256
    IN  c

SumAt(x, y, c0, w) ==
    Tab8([k \in 0..7 |-> IF k < w THEN (x[k] + y[k] + Carries(x, y, c0)[k]) % 256 ELSE 0])

TopBitCarry(x, y, c0, w) ==
    ((x[w-1] % 128) + (y[w-1] % 128) + Carries(x, y, c0)[w-1]) \div 128

\* The low w bytes of the destination after the instruction.
AluResult == Tab8([k \in 0..7 |-> IF k < AluSize THEN registers[to_index(AluDst)][k] ELSE 0])

\* C19: ADD at width w: the low w bytes of the destination become
\* (lhs + rhs) mod 2^(8w); Zero is set iff that result is 0, Negative is its
\* most significant bit, Carry is set iff the unsigned sum overflows the
\* width, Overflow iff the signed sum does (the carries into and out of the
\* top bit differ); 0xFF + 1 at width 1 gives 0x00, Zero = 1, Carry = 1,
\* Overflow = 0, Negative = 0.
C19_Add ==
    (Executed("ADD") /\ AluDst \in X0..Sp /\ AluSrc # Ip /\ ~panicked) =>
        LET sum == SumAt(AluLhs, AluRhs, 0, AluSize)
        IN  /\ AluResult = sum
            /\ BitOf(flags, Zero) = (IF sum = u64(0) THEN 1 ELSE 0)
            /\ BitOf(flags, Negative) = sum[AluSize - 1] \div 128
            /\ BitOf(flags, Carry) = Carries(AluLhs, AluRhs, 0)[AluSize]
            /\ BitOf(flags, Overflow) =
                  (IF TopBitCarry(AluLhs, AluRhs, 0, AluSize)
                        # Carries(AluLhs, AluRhs, 0)[AluSize] THEN 1 ELSE 0)
            /\ (AluSize = 1 /\ AluLhs = u64(255) /\ AluRhs = u64(1)) =>
                  /\ registers[to_index(AluDst)][0] = 0
                  /\ BitOf(flags, Zero) = 1 /\ BitOf(flags, Carry) = 1
                  /\ BitOf(flags, Overflow) = 0 /\ BitOf(flags, Negative) = 0

C19_Witness ==
    /\ Executed("ADD")
    /\ AluSize = 1 /\ AluSrc = 0 /\ AluDst = X0
    /\ last.pre.registers[to_index(X0)] = u64(255)
    /\ CodeByte(2) = 1
    /\ last.pre.flags = u64(16)
    /\ flags = u64(16 + 4 + 8)
    /\ registers[to_index(X0)] = u64(0)

\* C20: SUB and CMP at width w set Zero iff the result truncated to w bytes
\* is 0, and Negative to its most significant bit, whatever the operand
\* registers hold above the width.
C20_SubCmpFlags ==
    ((Executed("SUB") \/ Executed("CMP")) /\ AluDst \in X0..Sp /\ AluSrc # Ip /\ ~panicked) =>
        LET diff == SumAt(AluLhs, BitNot(AluRhs), 1, AluSize)
        IN  /\ BitOf(flags, Zero) = (IF diff = u64(0) THEN 1 ELSE 0)
            /\ BitOf(flags, Negative) = diff[AluSize - 1] \div 128

\* C21: SUB at width w sets Carry iff the subtraction borrows (the truncated
\* lhs is below the truncated rhs) and Overflow iff the signed subtraction at
\* width w overflows (the carries into and out of the top bit of
\* lhs + ~rhs + 1 differ); 0x80 - 1 at width 1 gives the low byte 0x7F,
\* Overflow = 1, Negative = 0, Zero = 0, Carry = 0.
C21_SubCarryOverflow ==
    (Executed("SUB") /\ AluDst \in X0..Sp /\ AluSrc # Ip /\ ~panicked) =>
        /\ BitOf(flags, Carry) = (IF U64Lt(AluLhs, AluRhs) THEN 1 ELSE 0)
        /\ BitOf(flags, Overflow) =
              (IF TopBitCarry(AluLhs, BitNot(AluRhs), 1, AluSize)
                    # Carries(AluLhs, BitNot(AluRhs), 1)[AluSize] THEN 1 ELSE 0)
        /\ (AluSize = 1 /\ AluLhs = u64(128) /\ AluRhs = u64(1)) =>
              /\ registers[to_index(AluDst)][0] = 127
              /\ BitOf(flags, Overflow) = 1 /\ BitOf(flags, Negative) = 0
              /\ BitOf(flags, Zero) = 0 /\ BitOf(flags, Carry) = 0

C21_Witness ==
    /\ Executed("SUB")
    /\ AluSize = 1 /\ AluSrc = 0 /\ AluDst = X0
    /\ last.pre.registers[to_index(X0)] = u64(128)
    /\ CodeByte(2) = 1
    /\ last.pre.flags = u64(16)
    /\ flags = u64(16 + 2)
    /\ registers[to_index(X0)] = u64(127)

\* The Cpu as the latest clock() left it after fetching the opcode.
Fetched == fetch_byte(last.pre).m

\* C22: CMP a, b leaves every register other than IP, the idt, the halted
\* flag, all memory and the port devices unchanged, writes nothing to the
\* bus, and leaves the flags word that SUB a, b produces from the same Cpu.
C22_Cmp ==
    (Executed("CMP") /\ AluDst # 0) =>
        /\ \A id \in X0..Sp : registers[to_index(id)] = last.pre.registers[to_index(id)]
        /\ address_bus = last.pre.address_bus
        /\ port_bus = last.pre.port_bus
        /\ idt = last.pre.idt
        /\ halted = last.pre.halted
        /\ LogEntries("write") = {}
        /\ flags = SUB(Fetched).m.flags
        /\ IP = SUB(Fetched).m.registers[to_index(Ip)]

C22_Witness ==
    /\ Executed("CMP")
    /\ AluSize = 2
    /\ flags # last.pre.flags
    /\ BitOf(flags, Carry) = 1
    /\ registers[to_index(X0)] = last.pre.registers[to_index(X0)]
    /\ SUB(Fetched).m.registers[to_index(X0)] # registers[to_index(X0)]

(***************************************************************************)
(* Control flow, the stack and memory operands: the Cpu is constructed     *)
(* over an image that holds one or two instructions, X0, X1, X2, SP and    *)
(* the flags hold what earlier MOVs and a POPF have left there, and main   *)
(* clocks it.                                                              *)
(***************************************************************************)
MaxFlowSteps == 2

\* 0x8877_6655_4433_2211, the value of X2.
Pattern == from_le_bytes(<<17, 34, 51, 68, 85, 102, 119, 136>>)

\* The size of the default memory, 0xa0000.
MemorySize == 655360

\* Base and index registers whose sum with a displacement stays below 2^64,
\* and whose sum exceeds it.
BaseIndex == { [x0 |-> u64(64), x1 |-> u64(8)], [x0 |-> High(248), x1 |-> u64(8)] }

\* InterruptEnable with every combination of the four arithmetic flags.
ArithFlags == { u64(16 + n) : n \in 0..15 }

\* The reset value of SP, an SP a push wraps below 0, and one above the memory.
StackPointers == { u64(65535), u64(4), u64(MemorySize + 16) }

\* The registers and flags an instruction of a family is started with.
Settings(family) ==
    CASE family = "jump" ->
            { [x0 |-> a.x0, x1 |-> a.x1, sp |-> u64(65535), flags |-> f] :
                  a \in BaseIndex, f \in ArithFlags }
      [] family = "stack" ->
            { [x0 |-> a.x0, x1 |-> a.x1, sp |-> sp, flags |-> f] :
                  a \in BaseIndex, sp \in StackPointers, f \in {u64(16), High(21)} }
      [] family = "length" ->
            { [x0 |-> u64(64), x1 |-> u64(8), sp |-> u64(65535), flags |-> f] :
                  f \in {u64(0), u64(16), High(229), High(250)} }
      [] family = "invalid" ->
            { [x0 |-> u64(64), x1 |-> u64(8), sp |-> u64(65535), flags |-> f] :
                  f \in {High(229), High(250)} }
      [] family = "relative" ->
            { [x0 |-> u64(64), x1 |-> u64(8), sp |-> sp, flags |-> u64(16)] :
                  sp \in {u64(65535), u64(4)} }
      [] OTHER ->
            { [x0 |-> a.x0, x1 |-> a.x1, sp |-> u64(65535), flags |-> u64(16)] :
                  a \in BaseIndex }

\* The effective-address operands: [0x40], [X0 + X1 + 0x40], [0x101], the
\* last and the first four bytes of the memory with what follows them
\* unmapped, and [2^64 - 5].
JumpOperands == { Ea(0, 0, u64(64)), Ea(X0, X1, u64(64)) }
MemoryOperands ==
    JumpOperands \cup { Ea(0, 0, u64(257)), Ea(0, 0, u64(MemorySize - 4)),
                        Ea(0, 0, High(251)) }

\* Operands whose base or index is IP or SP: [IP + 0x40], [IP*1 + 0x40] with
\* IP as the index, [IP + IP + 0x40], [SP + 0x40], [SP + IP + 0x40],
\* [X0 + SP + 0x40] and [IP + X1 - 8].
RelativeOperands ==
    { Ea(Ip, 0, u64(64)), Ea(0, Ip, u64(64)), Ea(Ip, Ip, u64(64)),
      Ea(Sp, 0, u64(64)), Ea(Sp, Ip, u64(64)), Ea(X0, Sp, u64(64)),
      Ea(Ip, X1, High(248)) }

JumpNames ==
    {"JMP", "JZ", "JNZ", "JO", "JNO", "JS", "JNS", "JC", "JNC", "JBE", "JA", "JL",
     "JGE", "JLE", "JG"}

\* CALL with a RET at 0x40 and at 0x88, the two addresses its operands name.
CallProgram(ea) ==
    <<Opcode("CALL")>> \o ea \o ZeroBuf(46) \o <<Opcode("RET")>> \o ZeroBuf(71)
        \o <<Opcode("RET")>>

FlowPrograms ==
    { [family |-> "jump", code |-> <<Opcode(name)>> \o ea] :
          name \in JumpNames, ea \in JumpOperands }
    \cup { [family |-> "memory", code |-> <<Opcode(name), Rm(X2, 0, sel)>> \o ea] :
               name \in {"STR", "LDR", "LEA"}, sel \in Sizes, ea \in MemoryOperands }
    \cup { [family |-> "memory", code |-> <<Opcode("LIDT")>> \o ea] : ea \in JumpOperands }
    \cup { [family |-> "stack", code |-> CallProgram(ea)] : ea \in JumpOperands }
    \cup { [family |-> "stack", code |-> c] :
               c \in { <<Opcode("PUSH"), X2, Opcode("POP"), X0>>,
                       <<Opcode("PUSHF"), Opcode("POPF")>>,
                       <<Opcode("POP"), X0>>, <<Opcode("POPF")>>,
                       <<Opcode("RET")>>, <<Opcode("RETI")>> } }
    \cup { [family |-> "length", code |-> <<Opcode(name)>>] :
               name \in {"NOP", "CLI", "STI", "HLT"} }
    \cup { [family |-> "length", code |-> <<Opcode(name), Rm(X1, X0, sel)>>] :
               name \in {"MOV", "ADD", "SUB", "MUL", "DIV", "OR", "XOR", "AND", "CMP"},
               sel \in Sizes }
    \cup { [family |-> "length",
            code |-> <<Opcode(name), Rm(0, X0, sel)>> \o SubSeq(to_le_bytes(u64(3)), 1, Pow2(sel))] :
               name \in {"MOV", "ADD", "SUB", "MUL", "DIV", "OR", "XOR", "AND", "CMP"},
               sel \in Sizes }
    \cup { [family |-> "length", code |-> <<Opcode(name), Rm(X0, 0, sel)>>] :
               name \in {"NOT", "NEG"}, sel \in Sizes }
    \cup { [family |-> "length", code |-> c] :
               c \in { <<Opcode("INT"), 32>>, <<Opcode("IN"), X0, 52, 18>>,
                       <<Opcode("OUT"), X0, 52, 18>>,
                       <<Opcode("DIV"), Rm(0, X0, 0), 0>> } }
    \cup { [family |-> "invalid", code |-> <<Opcode(name), Rm(src, 0, sel)>>] :
               name \in {"MOV", "ADD", "SUB", "MUL", "DIV", "OR", "XOR", "AND", "CMP"},
               src \in {0, X1}, sel \in Sizes }
    \cup { [family |-> "invalid", code |-> <<Opcode(name), Rm(0, 0, sel)>>] :
               name \in {"NOT", "NEG", "PUSH", "POP", "STR", "LDR", "LEA", "IN", "OUT"},
               sel \in Sizes }
    \cup { [family |-> "relative", code |-> <<Opcode(name)>> \o ea] :
               name \in {"JMP", "CALL", "LIDT"}, ea \in RelativeOperands }
    \cup { [family |-> "relative", code |-> <<Opcode(name), Rm(reg, 0, 3)>> \o ea] :
               name \in {"LEA", "STR", "LDR"}, reg \in {X2, Sp}, ea \in RelativeOperands }

FlowInit ==
    \E p \in FlowPrograms, dbg \in BOOLEAN :
        \E m \in {Cpu_new(load_file(DefaultBus, Image(p.code)), PortBus_new, dbg)} :
          \E s \in Settings(p.family) :
            /\ registers = [m.registers EXCEPT ![to_index(X0)] = s.x0,
                                               ![to_index(X1)] = s.x1,
                                               ![to_index(X2)] = Pattern,
                                               ![to_index(Sp)] = s.sp]
            /\ idt = (IF p.family = "invalid" THEN IdtBase ELSE m.idt)
            /\ flags = s.flags
            /\ halted = m.halted
            /\ address_bus = m.address_bus
            /\ port_bus = m.port_bus
            /\ panicked = m.panicked
            /\ debug = m.debug
            /\ main_pc = "loop"
            /\ last = [op |-> "new", pre |-> m, log |-> m.log]
            /\ clocks = 0
            /\ resets = 0
            /\ adds = 1
            /\ transfers = 1

FlowStep == clocks < MaxFlowSteps /\ Clock

FlowSpec == FlowInit /\ [][FlowStep]_vars

(***************************************************************************)
(* Properties of control flow, the stack and memory operands.              *)
(***************************************************************************)
\* The effective-address operand that starts at byte o of the instruction
\* the latest clock() fetched: the base and index fields and the
\* displacement k; register id as the decoding finds it (0 stands for no
\* register, IP has passed the operand); the sum modulo 2^64.
EaBase(o) == CodeByte(o) % 8
EaIndex(o) == (CodeByte(o) \div 8) % 8
EaDisplacement(o) == Tab8([k \in 0..7 |-> CodeByte(o + 1 + k)])

EaRegister(o, id) ==
    CASE id = 0  -> u64(0)
      [] id = Ip -> wrapping_add(last.pre.registers[to_index(Ip)], u64(o + 9))
      [] OTHER   -> last.pre.registers[to_index(id)]

WrappedSum(o) ==
    wrapping_add(wrapping_add(EaRegister(o, EaBase(o)), EaRegister(o, EaIndex(o))),
                 EaDisplacement(o))

\* The exact sum base + index + k exceeds 2^64 - 1.
SumExceeds(o) ==
    \/ add_overflows(EaRegister(o, EaBase(o)), EaRegister(o, EaIndex(o)))
    \/ add_overflows(wrapping_add(EaRegister(o, EaBase(o)), EaRegister(o, EaIndex(o))),
                     EaDisplacement(o))

\* The condition of a jump over a flags word.
JumpCondition(name, f) ==
    LET N == BitOf(f, Negative) = 1
        O == BitOf(f, Overflow) = 1
        Z == BitOf(f, Zero) = 1
        C == BitOf(f, Carry) = 1
    IN  CASE name = "JMP" -> TRUE
          [] name = "JZ"  -> Z
          [] name = "JNZ" -> ~Z
          [] name = "JO"  -> O
          [] name = "JNO" -> ~O
          [] name = "JS"  -> N
          [] name = "JNS" -> ~N
          [] name = "JC"  -> C
          [] name = "JNC" -> ~C
          [] name = "JBE" -> C \/ Z
          [] name = "JA"  -> ~C \/ ~Z
          [] name = "JL"  -> N # O
          [] name = "JGE" -> N = O
          [] name = "JLE" -> Z \/ N # O
          [] OTHER        -> ~Z /\ N = O

\* The address after an instruction of n bytes that the latest clock() fetched.
Following(n) == wrapping_add(last.pre.registers[to_index(Ip)], u64(n))

\* C23: a jump decodes its effective address EA and sets IP to EA exactly
\* when its condition holds of the flags; otherwise IP is the address after
\* the 10-byte instruction; either way no other register, no flag, no
\* memory byte and nothing else of the Cpu changes.
C23_Jumps ==
    \A name \in JumpNames :
        Executed(name) =>
            /\ ~panicked
            /\ Machine = [last.pre EXCEPT !.registers[to_index(Ip)] =
                             IF JumpCondition(name, last.pre.flags)
                             THEN WrappedSum(1) ELSE Following(10)]
            /\ LogEntries("write") = {}

\* The opcode at the IP the operation before the latest one started from.
PreviousOpcode == ByteAt(last.pre.address_bus, last.before.ip)

\* C24: CALL pushes the address after the CALL (IP once the operand is
\* fetched) as a qword, then sets IP to EA; a RET that follows it with the
\* stack in mapped memory pops that address into IP: execution resumes
\* right after the CALL and SP is what it was before the CALL.
C24_CallRet ==
    /\ Executed("CALL") =>
          /\ ~panicked
          /\ SP = wrapping_sub(last.pre.registers[to_index(Sp)], u64(8))
          /\ \E i \in LogEntries("write") :
                /\ last.log[i].address = SP
                /\ last.log[i].bytes = to_le_bytes(Following(10))
          /\ IP = WrappedSum(1)
    /\ ( /\ Executed("RET")
         /\ last.before.op = "clock"
         /\ PreviousOpcode = Opcode("CALL")
         /\ QwordMapped(last.pre.address_bus, wrapping_sub(last.before.sp, u64(8))) )
       => /\ IP = wrapping_add(last.before.ip, u64(10))
          /\ SP = last.before.sp

(***************************************************************************)
(* The stack helpers of the Cpu on their own (cpu.rs 136-210): from a Cpu  *)
(* constructed over the default memory, with SP and the flags as a guest   *)
(* has left them, a push or a pop of one of the four widths, push_flags or *)
(* pop_flags is applied.  `last` holds the operation, its argument and     *)
(* result, and the operation before it with the SP and flags it found.     *)
(***************************************************************************)
MaxStackOps == 2

PushSizes == {1, 2, 4, 8}

\* What is pushed at a width: the low bytes of 0x8877_6655_4433_2211, and
\* the all-ones value of the width.
PushValues(size) ==
    IF size = 1 THEN {Pattern[0], 255}
    ELSE {trunucate_value(Pattern, size), trunucate_value(AllOnes, size)}

StackInit ==
    \E dbg \in BOOLEAN :
        \E m \in {Cpu_new(load_file(DefaultBus, Image(<<Opcode("HLT")>>)), PortBus_new, dbg)} :
          \E sp \in StackPointers, f \in {u64(16), High(21)} :
            /\ registers = [m.registers EXCEPT ![to_index(Sp)] = sp]
            /\ idt = m.idt
            /\ flags = f
            /\ halted = m.halted
            /\ address_bus = m.address_bus
            /\ port_bus = m.port_bus
            /\ panicked = m.panicked
            /\ debug = m.debug
            /\ main_pc = "loop"
            /\ last = [op |-> "new", pre |-> m, log |-> m.log, arg |-> <<>>, result |-> <<>>,
                       before |-> [op |-> "none", arg |-> <<>>, sp |-> sp, flags |-> f]]
            /\ clocks = 0
            /\ resets = 0
            /\ adds = 1
            /\ transfers = 0

\* The Cpu becomes m; the call is recorded.
StackBecomes(m, op, arg, result) ==
    /\ registers' = m.registers
    /\ idt' = m.idt
    /\ flags' = m.flags
    /\ halted' = m.halted
    /\ address_bus' = m.address_bus
    /\ port_bus' = m.port_bus
    /\ panicked' = m.panicked
    /\ debug' = m.debug
    /\ last' = [op |-> op, pre |-> Machine, log |-> m.log, arg |-> arg, result |-> result,
                before |-> [op |-> last.op, arg |-> last.arg,
                            sp |-> last.pre.registers[to_index(Sp)],
                            flags |-> last.pre.flags]]
    /\ transfers' = transfers + 1
    /\ UNCHANGED <<main_pc, clocks, resets, adds>>

push_sized(m, value, size) ==
    CASE size = 1 -> push_byte(m, value)
      [] size = 2 -> push_word(m, value)
      [] size = 4 -> push_dword(m, value)
      [] OTHER    -> push_qword(m, value)

pop_sized(m, size) ==
    CASE size = 1 -> pop_byte(m)
      [] size = 2 -> pop_word(m)
      [] size = 4 -> pop_dword(m)
      [] OTHER    -> pop_qword(m)

Push ==
    /\ ~panicked
    /\ transfers < MaxStackOps
    /\ \E size \in PushSizes :
         \E value \in PushValues(size) :
            StackBecomes(push_sized(Machine, value, size), "push",
                         [size |-> size, value |-> value], <<>>)

Pop ==
    /\ ~panicked
    /\ transfers < MaxStackOps
    /\ \E size \in PushSizes :
         \E r \in {pop_sized(Machine, size)} :
            StackBecomes(r.m, "pop", [size |-> size], r.v)

PushFlags ==
    /\ ~panicked
    /\ transfers < MaxStackOps
    /\ StackBecomes(push_flags(Machine), "push_flags", <<>>, <<>>)

PopFlags ==
    /\ ~panicked
    /\ transfers < MaxStackOps
    /\ StackBecomes(pop_flags(Machine), "pop_flags", <<>>, <<>>)

StackNext == Push \/ Pop \/ PushFlags \/ PopFlags

StackSpec == StackInit /\ [][StackNext]_vars

\* C25: a push followed by a pop of the same width, over mapped memory,
\* returns the pushed value and leaves SP where it was before the push: the
\* push lowers SP by the width and then writes at SP, the pop reads at SP
\* and then raises SP by the width; push_flags followed by pop_flags leaves
\* all 64 bits of the flags word, the undefined ones included, as they were.
C25_PushPop ==
    /\ last.op = "push" =>
          (~panicked =>
              /\ SP = wrapping_sub(last.pre.registers[to_index(Sp)], u64(last.arg.size))
              /\ \E i \in LogEntries("write") :
                    /\ last.log[i].address = SP
                    /\ Len(last.log[i].bytes) = last.arg.size)
    /\ last.op = "pop" =>
          (~panicked =>
              /\ SP = wrapping_add(last.pre.registers[to_index(Sp)], u64(last.arg.size))
              /\ \E i \in LogEntries("read") :
                    /\ last.log[i].address = last.pre.registers[to_index(Sp)]
                    /\ last.log[i].len = last.arg.size)
    /\ ( /\ last.op = "pop"
         /\ last.before.op = "push"
         /\ last.before.arg.size = last.arg.size
         /\ FullyMapped(address_bus, last.pre.registers[to_index(Sp)], last.arg.size) )
       => /\ ~panicked
          /\ last.result = last.before.arg.value
          /\ SP = last.before.sp
    /\ ( /\ last.op = "pop_flags"
         /\ last.before.op = "push_flags"
         /\ QwordMapped(address_bus, last.pre.registers[to_index(Sp)]) )
       => /\ ~panicked
          /\ flags = last.before.flags
          /\ SP = last.before.sp

C25_Witness ==
    /\ last.op = "pop"
    /\ last.before.op = "push"
    /\ last.arg.size = 2
    /\ last.before.arg.size = 2
    /\ last.before.sp = u64(65535)
    /\ SP = u64(65535)
    /\ last.pre.registers[to_index(Sp)] = u64(65533)
    /\ last.result = trunucate_value(Pattern, 2)
    /\ ByteAt(address_bus, u64(65533)) = 17
    /\ ByteAt(address_bus, u64(65534)) = 34

\* The instructions with an RM byte: a destination, and a source register or
\* an immediate of the width.
RmNames == {"MOV", "ADD", "SUB", "MUL", "DIV", "OR", "XOR", "AND", "CMP"}

\* The number of bytes the encoding of the latest instruction takes.
EncodedLength(name) ==
    CASE name \in {"NOP", "PUSHF", "POPF", "CLI", "STI", "HLT", "RET", "RETI"} -> 1
      [] name \in {"PUSH", "POP", "NOT", "NEG", "INT"} -> 2
      [] name \in RmNames -> IF AluSrc # 0 THEN 2 ELSE 2 + AluSize
      [] name \in {"IN", "OUT"} -> 4
      [] name \in {"STR", "LDR", "LEA"} -> 11
      [] OTHER -> 10

\* The latest instruction transfers control: a taken jump, CALL, RET, RETI,
\* or an instruction whose destination register is IP.
TransfersControl(name) ==
    \/ name \in {"CALL", "RET", "RETI"}
    \/ name \in JumpNames /\ JumpCondition(name, last.pre.flags)
    \/ name \in RmNames \ {"CMP"} /\ AluDst = Ip
    \/ name \in {"POP", "NOT", "NEG", "LDR", "LEA", "IN"} /\ CodeByte(1) % 8 = Ip

\* C26: an instruction that completes without raising an interrupt and
\* without transferring control leaves IP at IP before plus its encoded
\* length: 1 for NOP, PUSHF, POPF, CLI, STI and HLT, 2 for the RM forms with
\* a source register, PUSH, POP, NOT, NEG and a masked INT, 2 + width for
\* the RM forms with an immediate, 4 for IN and OUT, 10 for an untaken jump
\* and LIDT, 11 for STR, LDR and LEA.
C26_IpAdvance ==
    \A i \in DOMAIN LOOKUP_TABLE :
        ( /\ Executed(LOOKUP_TABLE[i])
          /\ ~panicked
          /\ LogEntries("interrupt") = {}
          /\ ~TransfersControl(LOOKUP_TABLE[i]) )
        => IP = Following(EncodedLength(LOOKUP_TABLE[i]))

C26_Witness ==
    /\ Executed("XOR")
    /\ AluSrc = 0 /\ AluSize = 4
    /\ ~panicked
    /\ LogEntries("interrupt") = {}
    /\ last.pre.registers[to_index(Ip)] = u64(8)
    /\ IP = u64(14)

\* The instructions with an effective-address operand, and the byte of the
\* instruction at which the operand starts.
EaNames == JumpNames \cup {"CALL", "LIDT", "STR", "LDR", "LEA"}
EaOffset(name) == IF name \in {"STR", "LDR", "LEA"} THEN 2 ELSE 1

\* C27: the effective address is (base = 0 ? 0 : reg[base]) +
\* (index = 0 ? 0 : reg[index]) + k modulo 2^64, base being bits 0-2 and
\* index bits 3-5 of the operand byte: whatever the registers and the
\* displacement hold, sums above 2^64 - 1 included, the decoding completes
\* and yields the wrapped sum.
C27_EffectiveAddress ==
    \A name \in EaNames :
        (Executed(name) /\ (EaOffset(name) = 2 => CodeByte(1) % 8 # 0)) =>
            \E i \in LogEntries("address") : last.log[i].value = WrappedSum(EaOffset(name))

\* The register operand of STR, LDR and LEA (bits 0-2 of the byte after the
\* opcode), its value before the instruction, and the operand width.
MemRegister == CodeByte(1) % 8
MemWidth == SizeOf(CodeByte(1))
MemRegisterBefore == last.pre.registers[to_index(MemRegister)]

\* Address EA + k of the memory operand of the latest instruction.
MemAddress(k) == wrapping_add(WrappedSum(2), u64(k))

\* C28: STR with operand width w stores the low w bytes of the source
\* register, little-endian, at [EA, EA + w) and nothing else: it makes one
\* write, of w bytes at EA, and the bytes at [EA + w, EA + 8) are what they
\* were.
C28_Str ==
    (Executed("STR") /\ MemRegister \in X0..Sp) =>
        /\ ~panicked
        /\ \A i \in LogEntries("write") :
              /\ last.log[i].address = WrappedSum(2)
              /\ last.log[i].bytes = SubSeq(to_le_bytes(MemRegisterBefore), 1, MemWidth)
        /\ Cardinality(LogEntries("write")) = 1
        /\ \A k \in MemWidth..7 :
              ByteAt(address_bus, MemAddress(k)) = ByteAt(last.pre.address_bus, MemAddress(k))

\* C29: LDR with operand width w makes the low w bytes of the destination
\* the bytes stored at [EA, EA + w) (0 where nothing is mapped) and leaves
\* its upper bytes as they were, whatever is stored or mapped at EA + w and
\* above.
C29_Ldr ==
    (Executed("LDR") /\ MemRegister \in X0..Sp) =>
        /\ ~panicked
        /\ \A k \in 0..7 :
              registers[to_index(MemRegister)][k] =
                 IF k < MemWidth THEN ByteAt(last.pre.address_bus, MemAddress(k))
                 ELSE MemRegisterBefore[k]

\* C30: LEA makes the whole 64-bit destination register equal to EA,
\* whatever the size bits of its register byte are; LIDT makes idt equal to
\* EA.
C30_LeaLidt ==
    /\ (Executed("LEA") /\ MemRegister \in X0..Sp) =>
          /\ ~panicked
          /\ registers[to_index(MemRegister)] = WrappedSum(2)
    /\ Executed("LIDT") =>
          /\ ~panicked
          /\ idt = WrappedSum(1)

(***************************************************************************)
(* Library devices (src/src/library_device.rs).  LibrarySpec is the host   *)
(* applying a configuration (config_file_parse.rs 119-239): each line      *)
(* constructs a library device and offers it to its bus; then the devices  *)
(* are called through the buses, until main() leaves by an error return or *)
(* by an unwinding panic and its locals are dropped.  `last.calls` lists,  *)
(* in order, every call made into a native library: "open" (Library::new), *)
(* "init", "write", "read", "shutdown", and "close" (the Library is        *)
(* dropped).  A library is known by the number of the construction that    *)
(* opened it; `adds` counts the constructions.                             *)
(***************************************************************************)
MaxConstructions == 3
MaxCalls == 2

\* The native modules a configuration line may name: whether the file loads,
\* which of the four functions it exports, and what its init returns (0 is
\* NULL).
Symbols == {"init", "write", "read", "shutdown"}

Modules ==
    { [opens |-> FALSE, exports |-> Symbols, handle |-> 1],
      [opens |-> TRUE, exports |-> Symbols \ {"shutdown"}, handle |-> 1],
      [opens |-> TRUE, exports |-> Symbols \ {"init"}, handle |-> 1],
      [opens |-> TRUE, exports |-> Symbols, handle |-> 0],
      [opens |-> TRUE, exports |-> Symbols, handle |-> 1] }

LibraryPorts == {4660, 4661}
LibraryIntervals ==
    { [address |-> u64(0), length |-> u64(16)],
      [address |-> u64(8), length |-> u64(16)] }

Native(fn, library, ret) == [fn |-> fn, library |-> library, ret |-> ret]

\* A faulty constructor: the NULL test on init's result is missing.
LibraryDevice_new_unchecked(calls, library, module, argument) ==
    IF ~module.opens THEN [result |-> "Err", device |-> <<>>, calls |-> calls]
    ELSE IF module.exports # Symbols
    THEN [result |-> "Err", device |-> <<>>,
          calls |-> calls \o <<Native("open", library, 1), Native("close", library, 0)>>]
    ELSE [result |-> "Ok",
          device |-> [library |-> library, private_data |-> module.handle,
                      argument |-> argument],
          calls |-> calls \o <<Native("open", library, 1),
                               Native("init", library, module.handle)>>]

\* LibraryAddressDevice::new and LibraryPortDevice::new: open the library,
\* look up init, write, read and shutdown, call init.  On every early return
\* the local `library` is dropped, which closes the library.
LibraryDevice_new(calls, library, module, argument) ==
    IF ~module.opens THEN [result |-> "Err", device |-> <<>>, calls |-> calls]
    ELSE IF module.exports # Symbols
    THEN [result |-> "Err", device |-> <<>>,
          calls |-> calls \o <<Native("open", library, 1), Native("close", library, 0)>>]
    ELSE IF module.handle = 0
    THEN [result |-> "Err", device |-> <<>>,
          calls |-> calls \o <<Native("open", library, 1), Native("init", library, 0),
                               Native("close", library, 0)>>]
    ELSE [result |-> "Ok",
          device |-> [library |-> library, private_data |-> module.handle,
                      argument |-> argument],
          calls |-> calls \o <<Native("open", library, 1),
                               Native("init", library, module.handle)>>]

\* AddressBusDevice / PortBusDevice for a library device: the call goes to
\* the module's function with the device's private_data.
LibraryDevice_write(calls, device) ==
    Append(calls, Native("write", device.library, device.private_data))
LibraryDevice_read(calls, device) ==
    Append(calls, Native("read", device.library, device.private_data))

\* Dropping a library device: Drop::drop calls shutdown, then the fields are
\* dropped, `library` among them.
LibraryDevice_drop(calls, device) ==
    calls \o <<Native("shutdown", device.library, device.private_data),
               Native("close", device.library, 0)>>

\* Dropping a bus drops the devices it owns, one after the other.
RECURSIVE DropAll(_, _)
DropAll(calls, devices) ==
    IF devices = <<>> THEN calls
    ELSE DropAll(LibraryDevice_drop(calls, Head(devices)), Tail(devices))

RECURSIVE PortDevicesFrom(_, _)
PortDevicesFrom(entries, port) ==
    IF port >= PortSlots THEN <<>>
    ELSE IF port \in DOMAIN entries
    THEN <<entries[port]>> \o PortDevicesFrom(entries, port + 1)
    ELSE IF \E p \in DOMAIN entries : p > port
    THEN PortDevicesFrom(entries, CHOOSE p \in DOMAIN entries :
                                     p > port /\ \A q \in DOMAIN entries : q > port => p <= q)
    ELSE <<>>

\* main() is left: its locals are dropped in reverse order of declaration,
\* port_bus before address_bus (main.rs 58-59).
DropBuses(calls, bus, ports) ==
    DropAll(DropAll(calls, PortDevicesFrom(ports, 0)),
            [i \in DOMAIN bus |-> bus[i].device])

LibraryBecomes(bus, ports, pc, op, calls) ==
    /\ address_bus' = (IF pc = "exit" THEN AddressBus_new ELSE bus)
    /\ port_bus' = (IF pc = "exit" THEN PortBus_new ELSE ports)
    /\ main_pc' = pc
    /\ last' = [op |-> op,
                calls |-> IF pc = "exit" THEN DropBuses(calls, bus, ports) ELSE calls]
    /\ UNCHANGED <<registers, idt, flags, halted, debug, clocks, resets>>

LibraryInit ==
    /\ registers = [i \in 0..6 |-> u64(0)]
    /\ idt = u64(0)
    /\ flags = u64(0)
    /\ halted = FALSE
    /\ address_bus = AddressBus_new
    /\ port_bus = PortBus_new
    /\ panicked = FALSE
    /\ debug \in BOOLEAN
    /\ main_pc = "setup"
    /\ last = [op |-> "new", calls |-> <<>>]
    /\ clocks = 0
    /\ resets = 0
    /\ adds = 0
    /\ transfers = 0

\* Config::apply_address_device_shared_library: construct the device, add
\* it to the address bus.  A rejected device is dropped by add_entry, and
\* every error return goes on to leave main().
ApplyAddressDevice ==
    /\ main_pc = "setup"
    /\ transfers = 0
    /\ adds < MaxConstructions
    /\ \E module \in Modules, req \in LibraryIntervals :
         \E n \in {LibraryDevice_new(last.calls, adds + 1, module, req.length)} :
            IF n.result = "Err"
            THEN LibraryBecomes(address_bus, port_bus, "exit", "address-device", n.calls)
            ELSE \E r \in {add_entry(address_bus, req.address, req.length, n.device)} :
                    IF r.result = "Ok"
                    THEN LibraryBecomes(r.entries, port_bus, "setup", "address-device",
                                        n.calls)
                    ELSE LibraryBecomes(address_bus, port_bus, "exit", "address-device",
                                        LibraryDevice_drop(n.calls, n.device))
    /\ adds' = adds + 1
    /\ UNCHANGED <<panicked, transfers>>

\* Config::apply_port_device_shared_library, likewise on the port bus.
ApplyPortDevice ==
    /\ main_pc = "setup"
    /\ transfers = 0
    /\ adds < MaxConstructions
    /\ \E module \in Modules, port \in LibraryPorts :
         \E n \in {LibraryDevice_new(last.calls, adds + 1, module, port)} :
            IF n.result = "Err"
            THEN LibraryBecomes(address_bus, port_bus, "exit", "port-device", n.calls)
            ELSE \E r \in {PortBus_add_device(port_bus, port, n.device)} :
                    IF r.result = "Ok"
                    THEN LibraryBecomes(address_bus, r.entries, "setup", "port-device",
                                        n.calls)
                    ELSE LibraryBecomes(address_bus, port_bus, "exit", "port-device",
                                        LibraryDevice_drop(n.calls, n.device))
    /\ adds' = adds + 1
    /\ UNCHANGED <<panicked, transfers>>

\* A bus transfer that reaches a device: AddressBus::write / read and
\* PortBus::write / read call the device they find.
DeviceWrite ==
    /\ main_pc = "setup"
    /\ transfers < MaxCalls
    /\ \E device \in {address_bus[i].device : i \in DOMAIN address_bus}
                     \cup {port_bus[p] : p \in DOMAIN port_bus} :
         LibraryBecomes(address_bus, port_bus, "setup", "write",
                        LibraryDevice_write(last.calls, device))
    /\ transfers' = transfers + 1
    /\ UNCHANGED <<panicked, adds>>

DeviceRead ==
    /\ main_pc = "setup"
    /\ transfers < MaxCalls
    /\ \E device \in {address_bus[i].device : i \in DOMAIN address_bus}
                     \cup {port_bus[p] : p \in DOMAIN port_bus} :
         LibraryBecomes(address_bus, port_bus, "setup", "read",
                        LibraryDevice_read(last.calls, device))
    /\ transfers' = transfers + 1
    /\ UNCHANGED <<panicked, adds>>

\* A panic unwinds main(): the locals are dropped as on a return.
Unwind ==
    /\ main_pc = "setup"
    /\ LibraryBecomes(address_bus, port_bus, "exit", "panic", last.calls)
    /\ panicked' = TRUE
    /\ UNCHANGED <<adds, transfers>>

LibraryNext == ApplyAddressDevice \/ ApplyPortDevice \/ DeviceWrite \/ DeviceRead \/ Unwind

LibrarySpec == LibraryInit /\ [][LibraryNext]_vars

\* The positions in last.calls of the calls of function fn into a library.
CallsOf(fn, library) ==
    {i \in DOMAIN last.calls : last.calls[i].fn = fn /\ last.calls[i].library = library}

\* The library's device was constructed: its init returned a handle.
Constructed(library) == \E i \in CallsOf("init", library) : last.calls[i].ret # 0

\* The library's device is owned by a bus.
Owned(library) ==
    \/ \E i \in DOMAIN address_bus : address_bus[i].device.library = library
    \/ \E p \in DOMAIN port_bus : port_bus[p].library = library

\* C31: a constructed library device gets shutdown exactly once, when it is
\* dropped (none while a bus owns it), after every read and write into its
\* module and before the library is closed; a module whose init did not
\* return a handle gets no read, write or shutdown.
C31_Lifecycle ==
    \A library \in 1..adds :
        /\ ~Constructed(library) =>
              CallsOf("write", library) \cup CallsOf("read", library)
                 \cup CallsOf("shutdown", library) = {}
        /\ Constructed(library) =>
              /\ Cardinality(CallsOf("shutdown", library)) = (IF Owned(library) THEN 0 ELSE 1)
              /\ \A s \in CallsOf("shutdown", library) :
                    /\ \A i \in CallsOf("write", library) \cup CallsOf("read", library)
                                  \cup CallsOf("init", library) : i < s
                    /\ \E c \in CallsOf("close", library) : c = s + 1
              /\ Owned(library) => CallsOf("close", library) = {}

C31_Witness ==
    /\ main_pc = "exit"
    /\ \E library \in 1..adds :
          /\ Constructed(library)
          /\ CallsOf("write", library) # {}
          /\ CallsOf("read", library) # {}
          /\ CallsOf("shutdown", library) # {}

(***************************************************************************)
(* Interrupt return.                                                       *)
(***************************************************************************)
\* The interrupt entries of the log of the operation before the latest one
\* whose dispatch went through: no reset follows them.
Dispatched ==
    IF last.before.op = "clock"
    THEN {i \in DOMAIN last.before.log :
             /\ last.before.log[i].op = "interrupt"
             /\ \A j \in DOMAIN last.before.log : last.before.log[j].op # "reset"}
    ELSE {}

\* The stack of a dispatch: the 16 bytes below the SP it found.
DispatchStackMapped(e) ==
    \A k \in 1..16 : Mapped(last.pre.address_bus, wrapping_sub(e.sp, u64(k)))

\* C32 as stated: a RETI that is the first instruction after a dispatch
\* from (IP0, flags0, SP0) leaves IP = IP0, flags = flags0 and SP = SP0.
C32_RetiAnyStack ==
    Executed("RETI") =>
        \A i \in Dispatched :
            /\ ~panicked
            /\ IP = last.before.log[i].ip
            /\ flags = last.before.log[i].flags
            /\ SP = last.before.log[i].sp

\* C32: a RETI that is the first instruction after a dispatch from
\* (IP0, flags0, SP0) whose 16 bytes of stack lie in mapped memory leaves
\* IP = IP0, the whole flags word = flags0 and SP = SP0.
C32_Reti ==
    Executed("RETI") =>
        \A i \in Dispatched :
            DispatchStackMapped(last.before.log[i]) =>
                /\ ~panicked
                /\ IP = last.before.log[i].ip
                /\ flags = last.before.log[i].flags
                /\ SP = last.before.log[i].sp

C32_Witness ==
    /\ Executed("RETI")
    /\ \E i \in Dispatched :
          /\ DispatchStackMapped(last.before.log[i])
          /\ last.before.log[i].flags \notin {u64(0), u64(16)}
          /\ IP = last.before.log[i].ip
          /\ SP = last.before.log[i].sp

(***************************************************************************)
(* Flags of the logical instructions, DIV and MUL.                         *)
(***************************************************************************)
LogicalNames == {"OR", "XOR", "AND", "NOT", "NEG"}

\* The low w bytes of the destination of instruction `name` after it.
ResultOf(name) ==
    Tab8([k \in 0..7 |->
        IF k < AluSize THEN registers[to_index(DstField(name))][k] ELSE 0])

\* C33: OR, XOR, AND, NOT and NEG at width w set Zero iff the result
\* truncated to w bytes is 0 and Negative to bit 8w - 1 of the result.
C33_LogicalFlags ==
    \A name \in LogicalNames :
        (Executed(name) /\ DstField(name) \in X0..Sp /\ ~panicked) =>
            /\ BitOf(flags, Zero) = (IF ResultOf(name) = u64(0) THEN 1 ELSE 0)
            /\ BitOf(flags, Negative) = ResultOf(name)[AluSize - 1] \div 128

\* C34: DIV at width w with a divisor whose low w bytes are not 0 makes the
\* low w bytes of the destination floor(trunc_w(lhs) / trunc_w(rhs)),
\* whatever the operand registers hold above the width.
C34_Div ==
    (Executed("DIV") /\ AluDst \in X0..Sp /\ AluSrc # Ip /\ AluRhs # u64(0)) =>
        /\ ~panicked
        /\ LogEntries("interrupt") = {}
        /\ AluResult = wrapping_div(AluLhs, AluRhs)

\* The largest unsigned value of a width, and the largest magnitude of a
\* signed product of the width: 2^(8w-1) - 1, or 2^(8w-1) if it is negative.
MaxUnsigned(w) == Tab8([k \in 0..7 |-> IF k < w THEN 255 ELSE 0])
MaxSigned(w, negative) ==
    IF negative THEN Tab8([k \in 0..7 |-> IF k = w - 1 THEN 128 ELSE 0])
    ELSE Tab8([k \in 0..7 |-> IF k < w - 1 THEN 255 ELSE IF k = w - 1 THEN 127 ELSE 0])

\* The absolute value of x read as a two's-complement number of width w.
AbsOf(x, w) ==
    IF x[w - 1] >= 128
    THEN Tab8([k \in 0..7 |-> IF k < w THEN wrapping_sub(u64(0), x)[k] ELSE 0])
    ELSE x

\* a * b > limit, on the exact product of 16 base-256 digits.
ProductExceeds(a, b, limit) ==
    Bind(MulFull(a, b), LAMBDA p :
        \/ \E k \in 8..15 : p[k] # 0
        \/ U64Lt(limit, Tab8([k \in 0..7 |-> p[k]])))

\* A byte read as a two's-complement number.
SignedByte(x) == IF x >= 128 THEN x - 256 ELSE x

\* C35: MUL at width w makes the low w bytes of the destination those of
\* lhs * rhs, sets Carry iff the unsigned product of the truncated operands
\* does not fit in w bytes and Overflow iff their signed product does not.
C35_Mul ==
    (Executed("MUL") /\ AluDst \in X0..Sp /\ AluSrc # Ip) =>
        Bind(AluSize, LAMBDA w : Bind(AluLhs, LAMBDA lhs : Bind(AluRhs, LAMBDA rhs :
            /\ ~panicked
            /\ registers[to_index(AluDst)][0] = (lhs[0] * rhs[0]) % 256
            /\ w = 1 =>
                  /\ BitOf(flags, Carry) = (IF lhs[0] * rhs[0] > 255 THEN 1 ELSE 0)
                  /\ BitOf(flags, Overflow) =
                        (IF SignedByte(lhs[0]) * SignedByte(rhs[0]) \in -128..127
                         THEN 0 ELSE 1)
            /\ AluResult = trunucate_value(wrapping_mul(lhs, rhs), w)
            /\ BitOf(flags, Carry) =
                  (IF ProductExceeds(lhs, rhs, MaxUnsigned(w)) THEN 1 ELSE 0)
            /\ BitOf(flags, Overflow) =
                  (IF ProductExceeds(AbsOf(lhs, w), AbsOf(rhs, w),
                                     MaxSigned(w, (lhs[w - 1] >= 128) # (rhs[w - 1] >= 128)))
                   THEN 1 ELSE 0))))

C35_Witness ==
    /\ Executed("MUL")
    /\ AluSize = 1 /\ AluDst = X0 /\ AluSrc = X1
    /\ last.pre.registers[to_index(X0)] = High(255)
    /\ last.pre.registers[to_index(X1)] = u64(255)
    /\ registers[to_index(X0)] = High(1)
    /\ BitOf(flags, Carry) = 1
    /\ BitOf(flags, Overflow) = 0

(***************************************************************************)
(* The flags an arithmetic or logical instruction leaves alone.            *)
(***************************************************************************)
AluNames == {"MOV", "ADD", "SUB", "MUL", "DIV", "OR", "XOR", "AND", "NOT", "NEG", "CMP"}

\* C36 as stated: OR, XOR, AND, NOT and NEG leave Carry and Overflow as they
\* were, and none of MOV, ADD, SUB, MUL, DIV, OR, XOR, AND, NOT, NEG and
\* CMP changes InterruptEnable or a flag bit at index 5 or above.
C36_FlagsKeptAlways ==
    /\ \A name \in LogicalNames :
          Executed(name) =>
              /\ BitOf(flags, Carry) = BitOf(last.pre.flags, Carry)
              /\ BitOf(flags, Overflow) = BitOf(last.pre.flags, Overflow)
    /\ \A name \in AluNames :
          Executed(name) =>
              \A bit \in InterruptEnable..63 : BitOf(flags, bit) = BitOf(last.pre.flags, bit)

\* C36: the same of every such instruction that does not end in a reset of
\* the CPU (an interrupt it raises that finds no handler).
C36_FlagsKept ==
    /\ \A name \in LogicalNames :
          (Executed(name) /\ LogEntries("reset") = {}) =>
              /\ BitOf(flags, Carry) = BitOf(last.pre.flags, Carry)
              /\ BitOf(flags, Overflow) = BitOf(last.pre.flags, Overflow)
    /\ \A name \in AluNames :
          (Executed(name) /\ LogEntries("reset") = {}) =>
              \A bit \in InterruptEnable..63 : BitOf(flags, bit) = BitOf(last.pre.flags, bit)

C36_Witness ==
    /\ Executed("NOT")
    /\ LogEntries("reset") = {}
    /\ last.pre.flags = High(250)
    /\ BitOf(flags, Carry) = 1
    /\ BitOf(flags, Overflow) = 1
    /\ flags # last.pre.flags
    /\ \A bit \in InterruptEnable..63 : BitOf(flags, bit) = 1

(***************************************************************************)
(* Reads of unmapped addresses.                                            *)
(***************************************************************************)
\* The reads of the latest operation that no write of it precedes: the bus
\* they find is the bus before the operation.
ReadsOfPre ==
    {i \in LogEntries("read") : \A j \in LogEntries("write") : i < j}

\* C37: every read the CPU makes (fetch, pop, LDR, IDT slot, reset) gets,
\* for each byte of its range, the stored byte where a device is mapped and
\* 0 where none is; a POP from an unmapped stack makes the register 0.
C37_ReadsZeroFill ==
    /\ \A i \in ReadsOfPre :
          LET e == last.log[i]
          IN  /\ Len(e.bytes) = e.len
              /\ \A k \in 1..e.len :
                    e.bytes[k] =
                       IF Mapped(last.pre.address_bus, wrapping_add(e.address, u64(k - 1)))
                       THEN ByteAt(last.pre.address_bus, wrapping_add(e.address, u64(k - 1)))
                       ELSE 0
    /\ ( /\ Executed("POP")
         /\ CodeByte(1) \in X0..Sp
         /\ \A k \in 0..7 : ~Mapped(last.pre.address_bus,
                                    wrapping_add(last.pre.registers[to_index(Sp)], u64(k))) )
       => /\ ~panicked
          /\ registers[to_index(CodeByte(1))] = u64(0)

(***************************************************************************)
(* A register field of 0.                                                  *)
(***************************************************************************)
RegNames == {"NOT", "NEG", "PUSH", "POP", "STR", "LDR", "LEA", "IN", "OUT"}

\* The latest clock() fetched instruction `name` with 0 in the field that
\* must name a register: bits 3-5 of the RM byte, or bits 0-2 of the
\* register byte.
FieldIsZero(name) ==
    /\ Executed(name)
    /\ \/ name \in RmNames /\ (CodeByte(1) \div 8) % 8 = 0
       \/ name \in RegNames /\ CodeByte(1) % 8 = 0

\* C38: an instruction whose destination or register field is 0 raises
\* INVALID_INSTRUCTION once it has fetched the opcode and the register byte
\* and nothing else: the interrupt handler finds the flags and SP of
\* before the instruction, no general register and no port changes, and
\* with a handler installed the flags stay and the only writes are the two
\* pushes of the dispatch, the IP pushed being the opcode address + 2.
C38_InvalidRegister ==
    \A name \in RmNames \cup RegNames :
        FieldIsZero(name) =>
            /\ ~panicked
            /\ \E i \in LogEntries("interrupt") :
                  /\ last.log[i].idt_entry = INVALID_INSTRUCTION
                  /\ last.log[i].ip = Following(2)
                  /\ Cardinality({j \in LogEntries("read") : j < i}) = 2
                  /\ \A j \in LogEntries("write") : i < j
                  /\ last.log[i].sp = last.pre.registers[to_index(Sp)]
                  /\ last.log[i].flags = last.pre.flags
            /\ LogEntries("assign") = {}
            /\ \A id \in X0..X4 : registers[to_index(id)] = last.pre.registers[to_index(id)]
            /\ port_bus = last.pre.port_bus
            /\ LogEntries("reset") # {} => address_bus = last.pre.address_bus
            /\ LogEntries("reset") = {} =>
                  /\ flags = last.pre.flags
                  /\ Cardinality(LogEntries("write")) = 2
                  /\ SP = wrapping_sub(last.pre.registers[to_index(Sp)], u64(16))
                  /\ QwordAt(address_bus, SP) = Following(2)
                  /\ QwordAt(address_bus, wrapping_add(SP, u64(8))) = last.pre.flags
                  /\ IP = u64(HandlerOf(INVALID_INSTRUCTION))

C38_Witness ==
    /\ FieldIsZero("MOV")
    /\ CodeByte(1) = Rm(0, 0, 3)
    /\ LogEntries("reset") = {}
    /\ QwordAt(address_bus, SP) = Following(2)
    /\ IP = u64(HandlerOf(INVALID_INSTRUCTION))


(***************************************************************************)
(* Flags across an interrupt dispatch.                                     *)
(***************************************************************************)
\* The interrupt entries of the log of the latest operation whose dispatch
\* went through: a handler address was found and the two pushes completed.
Successful ==
    {i \in LogEntries("interrupt") : Installed(last.log[i]) /\ ~panicked}

\* C39: a successful dispatch, of INT or of an exception, leaves every bit of
\* the flags as the interrupt handler found it; so an INT that is the first
\* instruction of a handler entered with InterruptEnable = 1 is dispatched
\* in its turn, from inside the handler.
C39_DispatchKeepsFlags ==
    /\ last.op = "clock" =>
          \A i \in Successful : flags = last.log[i].flags
    /\ Executed("INT") =>
          \A i \in Dispatched :
              BitOf(last.before.log[i].flags, InterruptEnable) = 1 =>
                  /\ last.pre.flags = last.before.log[i].flags
                  /\ \E j \in LogEntries("interrupt") :
                        /\ last.log[j].idt_entry = 32
                        /\ last.log[j].ip = u64(2370)
                        /\ last.log[j].flags = last.before.log[i].flags

C39_Witness ==
    /\ Executed("INT")
    /\ \E i \in Dispatched :
          /\ last.before.log[i].idt_entry = 33
          /\ BitOf(last.before.log[i].flags, InterruptEnable) = 1
          /\ last.before.log[i].flags # u64(16)
    /\ \E j \in Successful : last.log[j].idt_entry = 32
    /\ IP = u64(HandlerOf(32))
    /\ BitOf(flags, InterruptEnable) = 1


(***************************************************************************)
(* IP and SP as base or index of an effective address.                     *)
(***************************************************************************)
\* What register id contributes to the effective address whose operand
\* starts at byte o of the instruction, as C40 states it: nothing for id 0,
\* for IP the address of the byte after the displacement, and for SP and
\* X0..X4 the value before the instruction.
Contribution(o, id) ==
    CASE id = 0  -> u64(0)
      [] id = Ip -> Following(o + 9)
      [] OTHER   -> last.pre.registers[to_index(id)]

\* C40: in the effective address an instruction computes, a base or index
\* field of 7 stands for the IP after the selector byte and the 8-byte
\* displacement (opcode address + 10, or + 11 behind a register byte), a
\* field of 6 or of 1..5 for the value SP or X0..X4 held before the
\* instruction: the address less the displacement and the contribution of
\* the one field is the contribution of the other.  Where overflow checks
\* are not compiled in every such instruction computes its address.
C40_IpRelative ==
    \A name \in EaNames :
        (Executed(name) /\ (EaOffset(name) = 2 => CodeByte(1) % 8 # 0)) =>
            LET o == EaOffset(name)
            IN  /\ \A i \in LogEntries("address") :
                      LET rest == wrapping_sub(last.log[i].value, EaDisplacement(o))
                      IN  /\ wrapping_sub(rest, Contribution(o, EaIndex(o)))
                                = Contribution(o, EaBase(o))
                          /\ wrapping_sub(rest, Contribution(o, EaBase(o)))
                                = Contribution(o, EaIndex(o))
                /\ ~last.pre.debug => LogEntries("address") # {}

C40_Witness ==
    /\ Executed("LEA")
    /\ EaBase(2) = Sp
    /\ EaIndex(2) = Ip
    /\ CodeByte(1) % 8 = Sp
    /\ last.pre.registers[to_index(Ip)] # u64(0)
    /\ \E i \in LogEntries("address") :
          last.log[i].value =
              wrapping_add(wrapping_add(last.pre.registers[to_index(Sp)], Following(11)),
                           u64(64))
    /\ SP = wrapping_add(wrapping_add(last.pre.registers[to_index(Sp)], Following(11)),
                         u64(64))

====
